---- MODULE Spec2Model ----
(***************************************************************************)
(* Model of the options scoring engine and recommendation categorizer of   *)
(* investment-summary (src/daily_market_summary.py).                       *)
(*                                                                         *)
(* Numbers.  Python floats are modelled as exact rationals [n, d] (d > 0,  *)
(* lowest terms).  Dollar amounts of a position are integer cents, percent *)
(* amounts are integer hundredths of a percent (the brokerage export has   *)
(* two decimals).  A value produced by round(x, 2) is an integer number of *)
(* hundredths: 7600 is 76.00.                                              *)
(***************************************************************************)
EXTENDS Integers, Sequences, FiniteSets, TLC

VARIABLES
    pc,                 \* position of the caller: "input", "none", "returned", "time"
    options_portfolio,  \* the argument of calculate_action_recommendations
    max_loss_dollars,   \* local of calculate_action_recommendations, in cents
    score_locals,       \* per position, the loop's unrounded locals
    scored_positions,   \* the list of position_data dictionaries
    recommendations,    \* the returned dictionary: five lists of references
    days_in,            \* arguments of calculate_time_urgency_score calls
    time_out,           \* what the two copies of the function returned for each
    first_call,         \* argument and result of the first of two calls
    csv_exists,         \* whether the portfolio CSV file exists
    csv_rows,           \* the rows csv.DictReader yields, in file order
    today,              \* date.today(), as <<year, month, day>>
    full_portfolio,     \* outcome of load_full_portfolio
    portfolio,          \* outcome of load_portfolio
    symbol_parts,       \* the pieces a symbol string was written from
    symbol_in,          \* argument of parse_option_symbol
    option_info,        \* outcome of parse_option_symbol
    summary_in,         \* argument of calculate_options_summary
    summary,            \* outcome of calculate_options_summary
    calendar_recs,      \* what generate_recommendation returned per option
    sync_args,          \* create_all, update_all, dry_run of the sync run
    sync_options,       \* the options the sync run loaded
    calendar,           \* the events of the calendar
    service_calls,      \* the calendar operations issued so far
    sync_counts,        \* created, updated, skipped of the sync run
    fetch_failing,      \* the tickers whose fetch fails
    fetch_portfolio,    \* the tickers of PORTFOLIO
    fetch_result,       \* what fetch_market_data returned
    exit_code           \* the exit code of main

scoring_vars == <<options_portfolio, max_loss_dollars, score_locals,
                  scored_positions, recommendations, first_call>>
time_vars == <<days_in, time_out>>
loader_vars == <<csv_exists, csv_rows, today, full_portfolio, portfolio>>
parser_vars == <<symbol_parts, symbol_in, option_info>>

summary_vars == <<summary_in, summary>>
compare_vars == <<calendar_recs>>
sync_vars == <<sync_args, sync_options, calendar, service_calls, sync_counts>>
fetch_vars == <<fetch_failing, fetch_portfolio, fetch_result, exit_code>>
report_vars == <<summary_vars, compare_vars, sync_vars, fetch_vars>>

vars == <<pc, scoring_vars, time_vars, loader_vars, parser_vars, report_vars>>

----------------------------------------------------------------------------
(* Bounds of the model *)

MaxOpts == 2
MaxRows == 2
NegDays == 5
MaxDays == 185

----------------------------------------------------------------------------
(* Exact rational arithmetic standing for float arithmetic *)

Abs(x) == IF x < 0 THEN -x ELSE x

RECURSIVE GCD(_, _)
GCD(a, b) == IF b = 0 THEN a ELSE GCD(b, a % b)

Rat(n, d) ==
    LET g == GCD(Abs(n), d)
    IN  [n |-> n \div g, d |-> d \div g]

RInt(k) == [n |-> k, d |-> 1]

RAdd(a, b) == Rat(a.n * b.d + b.n * a.d, a.d * b.d)
RSub(a, b) == Rat(a.n * b.d - b.n * a.d, a.d * b.d)
RMul(a, b) == Rat(a.n * b.n, a.d * b.d)
RLt(a, b) == a.n * b.d < b.n * a.d
RLe(a, b) == a.n * b.d <= b.n * a.d
RGe(a, b) == RLe(b, a)
RMax(a, b) == IF RLt(a, b) THEN b ELSE a
RMin(a, b) == IF RLt(b, a) THEN b ELSE a

\* round(x, 2) for x >= 0: the nearest hundredth, a tie going to the even one
Round2(x) ==
    LET q  == 100 * x.n
        fl == q \div x.d
        r  == q % x.d
    IN  IF 2 * r < x.d THEN fl
        ELSE IF 2 * r > x.d THEN fl + 1
        ELSE IF fl % 2 = 0 THEN fl ELSE fl + 1

\* f"{x:.1f}" of a percentage held in hundredths: the nearest tenth
Format1(p) ==
    LET fl == p \div 10
        r  == p % 10
    IN  IF 2 * r < 10 THEN fl
        ELSE IF 2 * r > 10 THEN fl + 1
        ELSE IF fl % 2 = 0 THEN fl ELSE fl + 1

----------------------------------------------------------------------------
(* calculate_time_urgency_score *)

\* the interpolation running from 60 at 60 days instead of from 40
TimeUrgencyFrom60(days_to_expiration) ==
    IF days_to_expiration < 7 THEN RInt(100)
    ELSE IF days_to_expiration <= 14 THEN RInt(80)
    ELSE IF days_to_expiration <= 30 THEN RInt(60)
    ELSE IF days_to_expiration <= 60 THEN RInt(40)
    ELSE IF days_to_expiration >= 180 THEN RInt(0)
    ELSE RMax(RInt(0),
              RSub(RInt(60), Rat((days_to_expiration - 60) * 40, 120)))

calculate_time_urgency_score(days_to_expiration) ==
    IF days_to_expiration < 7 THEN RInt(100)
    ELSE IF days_to_expiration <= 14 THEN RInt(80)
    ELSE IF days_to_expiration <= 30 THEN RInt(60)
    ELSE IF days_to_expiration <= 60 THEN RInt(40)
    ELSE IF days_to_expiration >= 180 THEN RInt(0)
    ELSE RMax(RInt(0),
              RSub(RInt(40), Rat((days_to_expiration - 60) * 40, 120)))

\* the copy of the function in calendar_sync.py
calendar_time_urgency_score(days_to_expiration) ==
    IF days_to_expiration < 7 THEN RInt(100)
    ELSE IF days_to_expiration <= 14 THEN RInt(80)
    ELSE IF days_to_expiration <= 30 THEN RInt(60)
    ELSE IF days_to_expiration <= 60 THEN RInt(40)
    ELSE IF days_to_expiration >= 180 THEN RInt(0)
    ELSE RMax(RInt(0),
              RSub(RInt(40), Rat((days_to_expiration - 60) * 40, 120)))

----------------------------------------------------------------------------
(* Python's list.sort / sorted on a list of references.  A reference is the *)
(* index of the position in scored_positions; key[i] is the sort key of     *)
(* position i.  The sort is stable, also with reverse=True.                 *)

InsertInto(sorted, x, key, reverse) ==
    LET stays == {j \in 1..Len(sorted) :
                    IF reverse THEN key[sorted[j]] >= key[x]
                               ELSE key[sorted[j]] <= key[x]}
        p == Cardinality(stays)
    IN  SubSeq(sorted, 1, p) \o <<x>> \o SubSeq(sorted, p + 1, Len(sorted))

RECURSIVE SortPrefix(_, _, _, _)
SortPrefix(lst, k, key, reverse) ==
    IF k = 0 THEN << >>
    ELSE InsertInto(SortPrefix(lst, k - 1, key, reverse), lst[k], key, reverse)

Reverse(s) == [i \in 1..Len(s) |-> s[Len(s) + 1 - i]]

\* reverse=True done as an ascending sort followed by a reversal
list_sort_reversing(lst, key, reverse) ==
    IF reverse THEN Reverse(SortPrefix(lst, Len(lst), key, FALSE))
    ELSE SortPrefix(lst, Len(lst), key, FALSE)

list_sort(lst, key, reverse) == SortPrefix(lst, Len(lst), key, reverse)

\* the list comprehension [p for p in scored_positions if keep[p]]
RECURSIVE FilterPrefix(_, _)
FilterPrefix(k, keep) ==
    IF k = 0 THEN << >>
    ELSE IF keep[k] THEN Append(FilterPrefix(k - 1, keep), k)
    ELSE FilterPrefix(k - 1, keep)

----------------------------------------------------------------------------
(* calculate_action_recommendations: scoring of one position *)

\* the running maximum forgotten: the last loss seen is kept
LastLossDollars(opts) ==
    LET losses == {i \in 1..Len(opts) : opts[i].total_gain < 0}
    IN  IF losses = {} THEN 0
        ELSE Abs(opts[CHOOSE i \in losses : \A j \in losses : j <= i].total_gain)

MaxLossDollars(opts) ==
    LET losses == {Abs(opts[i].total_gain) :
                     i \in {j \in 1..Len(opts) : opts[j].total_gain < 0}}
    IN  IF losses = {} THEN 0
        ELSE CHOOSE m \in losses : \A l \in losses : l <= m

LossDollarScore(total_gain, max_loss) ==
    IF total_gain < 0 /\ max_loss > 0
    THEN Rat(Abs(total_gain) * 100, max_loss)
    ELSE RInt(0)

\* the loss taken as a fraction of one instead of percent points
LossPercentScoreFraction(total_gain_percent) ==
    IF total_gain_percent < 0
    THEN RMin(RInt(100), Rat(Abs(total_gain_percent), 10000))
    ELSE RInt(0)

LossPercentScore(total_gain_percent) ==
    IF total_gain_percent < 0
    THEN RMin(RInt(100), Rat(Abs(total_gain_percent), 100))
    ELSE RInt(0)

\* the weights of the time score and of the loss-dollar score exchanged
CombinedScoreSwapped(time_score, loss_dollar_score, loss_percent_score) ==
    RAdd(RAdd(RMul(time_score, Rat(3, 10)),
              RMul(loss_dollar_score, Rat(4, 10))),
         RMul(loss_percent_score, Rat(3, 10)))

CombinedScore(time_score, loss_dollar_score, loss_percent_score) ==
    RAdd(RAdd(RMul(time_score, Rat(4, 10)),
              RMul(loss_dollar_score, Rat(3, 10))),
         RMul(loss_percent_score, Rat(3, 10)))

UrgencyLevel(combined_score) ==
    IF RGe(combined_score, RInt(90)) THEN "CRITICAL"
    ELSE IF RGe(combined_score, RInt(70)) THEN "HIGH"
    ELSE IF RGe(combined_score, RInt(50)) THEN "MEDIUM"
    ELSE "LOW"

\* the loss branch tested before the two profit-taking branches
RecommendedActionLossFirst(is_short, total_gain_percent, total_gain, combined_score) ==
    IF total_gain < 0 THEN
        IF RGe(combined_score, RInt(90)) THEN <<"CLOSE IMMEDIATELY">>
        ELSE IF RGe(combined_score, RInt(70)) THEN <<"HIGH PRIORITY">>
        ELSE IF RGe(combined_score, RInt(50)) THEN <<"MONITOR">>
        ELSE <<"WATCH">>
    ELSE IF is_short /\ total_gain_percent >= 6000
    THEN <<"BUY TO CLOSE (TAKE PROFIT NOW)", Format1(total_gain_percent)>>
    ELSE IF is_short /\ total_gain_percent >= 5000
    THEN <<"BUY TO CLOSE (CONSIDER CLOSING)", Format1(total_gain_percent)>>
    ELSE <<"HOLD">>

\* The action string; the two BUY TO CLOSE strings carry the gain formatted
\* to one decimal (in tenths of a percent).
RecommendedAction(is_short, total_gain_percent, total_gain, combined_score) ==
    IF is_short /\ total_gain_percent >= 6000
    THEN <<"BUY TO CLOSE (TAKE PROFIT NOW)", Format1(total_gain_percent)>>
    ELSE IF is_short /\ total_gain_percent >= 5000
    THEN <<"BUY TO CLOSE (CONSIDER CLOSING)", Format1(total_gain_percent)>>
    ELSE IF total_gain < 0 THEN
        IF RGe(combined_score, RInt(90)) THEN <<"CLOSE IMMEDIATELY">>
        ELSE IF RGe(combined_score, RInt(70)) THEN <<"HIGH PRIORITY">>
        ELSE IF RGe(combined_score, RInt(50)) THEN <<"MONITOR">>
        ELSE <<"WATCH">>
    ELSE <<"HOLD">>

\* the unrounded locals of one iteration of the scoring loop
ScoreLocals(opt, max_loss) ==
    LET time_score         == calculate_time_urgency_score(opt.days_to_expiration)
        loss_dollar_score  == LossDollarScore(opt.total_gain, max_loss)
        loss_percent_score == LossPercentScore(opt.total_gain_percent)
    IN  [time_score         |-> time_score,
         loss_dollar_score  |-> loss_dollar_score,
         loss_percent_score |-> loss_percent_score,
         combined_score     |-> CombinedScore(time_score, loss_dollar_score,
                                              loss_percent_score)]

\* the position_data dictionary built from an option and the loop's locals;
\* the keys copied unread from the option (symbol, underlying_symbol,
\* expiration_date, position_type) are left out
PositionData(opt, loc) ==
    [days_to_expiration      |-> opt.days_to_expiration,
     current_value           |-> opt.current_value,
     total_gain              |-> opt.total_gain,
     total_gain_percent      |-> opt.total_gain_percent,
     is_short                |-> opt.is_short,
     time_urgency_score      |-> Round2(loc.time_score),
     loss_dollar_score       |-> Round2(loc.loss_dollar_score),
     loss_percent_score      |-> Round2(loc.loss_percent_score),
     combined_priority_score |-> Round2(loc.combined_score),
     urgency_level           |-> UrgencyLevel(loc.combined_score),
     recommended_action      |-> RecommendedAction(opt.is_short,
                                    opt.total_gain_percent, opt.total_gain,
                                    loc.combined_score),
     cost_to_close           |-> Abs(opt.current_value)]

----------------------------------------------------------------------------
(* calculate_action_recommendations: the five views *)

KeyOf(sp, field) == [i \in 1..Len(sp) |-> sp[i][field]]

\* the short test left out of the filter
ProfitTakingAnySide(sp) ==
    list_sort(FilterPrefix(Len(sp),
                  [i \in 1..Len(sp) |-> sp[i].total_gain_percent >= 5000]),
              KeyOf(sp, "total_gain_percent"), TRUE)

ProfitTaking(sp) ==
    list_sort(FilterPrefix(Len(sp),
                  [i \in 1..Len(sp) |->
                      sp[i].is_short /\ sp[i].total_gain_percent >= 5000]),
              KeyOf(sp, "total_gain_percent"), TRUE)

\* the expiring-losers disjunct left out of the filter
UrgentLossesScoreOnly(sp) ==
    list_sort(FilterPrefix(Len(sp),
                  [i \in 1..Len(sp) |-> sp[i].combined_priority_score >= 7000]),
              KeyOf(sp, "combined_priority_score"), TRUE)

UrgentLosses(sp) ==
    list_sort(FilterPrefix(Len(sp),
                  [i \in 1..Len(sp) |->
                      \/ sp[i].combined_priority_score >= 7000
                      \/ (sp[i].days_to_expiration < 7 /\ sp[i].total_gain < 0)]),
              KeyOf(sp, "combined_priority_score"), TRUE)

\* the view cut at "fewer than limit days" instead of "at most limit days"
ExpiringBefore(sp, limit) ==
    list_sort(FilterPrefix(Len(sp),
                  [i \in 1..Len(sp) |-> sp[i].days_to_expiration < limit]),
              KeyOf(sp, "days_to_expiration"), FALSE)

ExpiringWithin(sp, limit) ==
    list_sort(FilterPrefix(Len(sp),
                  [i \in 1..Len(sp) |-> sp[i].days_to_expiration <= limit]),
              KeyOf(sp, "days_to_expiration"), FALSE)

\* sorted without reverse=True
AllByPriorityAscending(sp) ==
    list_sort([i \in 1..Len(sp) |-> i], KeyOf(sp, "combined_priority_score"), FALSE)

AllByPriority(sp) ==
    list_sort([i \in 1..Len(sp) |-> i], KeyOf(sp, "combined_priority_score"), TRUE)

NoRecommendations ==
    [profit_taking_opportunities |-> << >>,
     urgent_losses               |-> << >>,
     expiring_this_week          |-> << >>,
     expiring_next_week          |-> << >>,
     all_positions_by_priority   |-> << >>]

----------------------------------------------------------------------------
(* Python str operations.  A str is a TLA+ string; its characters are its   *)
(* one-character substrings.                                                *)

UpperLetters == "ABCDEFGHIJKLMNOPQRSTUVWXYZ"
LowerLetters == "abcdefghijklmnopqrstuvwxyz"
DigitChars == "0123456789"

Ch(s, i) == IF i \in 1..Len(s) THEN SubSeq(s, i, i) ELSE ""
CharsOf(s) == {Ch(s, i) : i \in 1..Len(s)}

UpperSet == CharsOf(UpperLetters)
LowerSet == CharsOf(LowerLetters)
LetterSet == UpperSet \cup LowerSet
DigitSet == CharsOf(DigitChars)
Whitespace == {" ", "\t"}

IndexIn(s, c) == CHOOSE i \in 1..Len(s) : Ch(s, i) = c
DigitVal(c) == IndexIn(DigitChars, c) - 1

UpperChar(c) == IF c \in LowerSet THEN Ch(UpperLetters, IndexIn(LowerLetters, c)) ELSE c
LowerChar(c) == IF c \in UpperSet THEN Ch(LowerLetters, IndexIn(UpperLetters, c)) ELSE c

\* the first k characters of s, letters in upper case
RECURSIVE UpperPrefix(_, _)
UpperPrefix(s, k) ==
    IF k = 0 THEN "" ELSE UpperPrefix(s, k - 1) \o UpperChar(Ch(s, k))

\* the characters i..k of s, letters in lower case
RECURSIVE LowerRange(_, _, _)
LowerRange(s, i, k) ==
    IF k < i THEN "" ELSE LowerRange(s, i, k - 1) \o LowerChar(Ch(s, k))

str_upper(s) == UpperPrefix(s, Len(s))
str_lower(s) == LowerRange(s, 1, Len(s))

\* s.capitalize()
str_capitalize(s) ==
    IF s = "" THEN "" ELSE UpperChar(Ch(s, 1)) \o LowerRange(s, 2, Len(s))

\* s.strip()
str_strip(s) ==
    LET solid == {i \in 1..Len(s) : Ch(s, i) \notin Whitespace}
    IN  IF solid = {} THEN ""
        ELSE SubSeq(s, CHOOSE i \in solid : \A j \in solid : i <= j,
                       CHOOSE i \in solid : \A j \in solid : j <= i)

\* the first k characters of s without the characters of set
RECURSIVE RemovePrefix(_, _, _)
RemovePrefix(s, set, k) ==
    IF k = 0 THEN ""
    ELSE RemovePrefix(s, set, k - 1) \o (IF Ch(s, k) \in set THEN "" ELSE Ch(s, k))

\* s.replace(c, "") for every single character c of set, one after the other
str_remove(s, set) == RemovePrefix(s, set, Len(s))

\* sub in s
str_contains(s, sub) ==
    \E i \in 1..(Len(s) - Len(sub) + 1) : SubSeq(s, i, i + Len(sub) - 1) = sub

\* the index after the longest run of characters of set that starts at i
RECURSIVE RunEnd(_, _, _)
RunEnd(s, i, set) ==
    IF i <= Len(s) /\ Ch(s, i) \in set THEN RunEnd(s, i + 1, set) ELSE i

\* the number the digits i..k of s write (0 for none)
RECURSIVE DigitsRange(_, _, _)
DigitsRange(s, i, k) ==
    IF k < i THEN 0 ELSE 10 * DigitsRange(s, i, k - 1) + DigitVal(Ch(s, k))

\* the number a string of decimal digits writes (0 for the empty string)
DigitsValue(s) == DigitsRange(s, 1, Len(s))

RECURSIVE Pow10(_)
Pow10(k) == IF k = 0 THEN 1 ELSE 10 * Pow10(k - 1)

\* zero-padded decimal of n on w digits
RECURSIVE Padded(_, _)
Padded(n, w) ==
    IF w = 0 THEN "" ELSE Padded(n \div 10, w - 1) \o Ch(DigitChars, (n % 10) + 1)

----------------------------------------------------------------------------
(* Python float(str).  A float is [kind, n, d]: kind "finite" with value    *)
(* n/d, kind "inf" with n the sign, kind "nan"; kind "error" stands for the *)
(* ValueError float() raises.  Digit-group underscores are not modelled; an *)
(* exponent above 308 on a non-zero mantissa overflows to infinity, other   *)
(* exponents are computed exactly.                                          *)

MaxFloatExp10 == 308

Finite(n, d) == [kind |-> "finite", n |-> Rat(n, d).n, d |-> Rat(n, d).d]
Infinite(sign) == [kind |-> "inf", n |-> sign, d |-> 1]
NotANumber == [kind |-> "nan", n |-> 0, d |-> 1]
FloatError == [kind |-> "error", n |-> 0, d |-> 1]
FloatZero == Finite(0, 1)

\* the value of a literal: body is the text after the sign, a and b are the
\* ends of its integer and fraction digits, c and e the start and end of its
\* exponent digits
FloatLiteral(sign, body, a, b, c, e) ==
    LET dot    == Ch(body, a) = "."
        intp   == SubSeq(body, 1, a - 1)
        frac   == IF dot THEN SubSeq(body, a + 1, b - 1) ELSE ""
        hasexp == Ch(body, b) \in {"e", "E"}
        expv   == IF hasexp
                  THEN (IF Ch(body, b + 1) = "-" THEN -1 ELSE 1)
                         * DigitsRange(body, c, e - 1)
                  ELSE 0
        wellformed ==
            /\ Len(intp) + Len(frac) >= 1
            /\ IF hasexp THEN e > c /\ e = Len(body) + 1 ELSE b = Len(body) + 1
        mant   == DigitsValue(intp) * Pow10(Len(frac)) + DigitsValue(frac)
    IN  IF str_lower(body) \in {"inf", "infinity"} THEN Infinite(sign)
        ELSE IF str_lower(body) = "nan" THEN NotANumber
        ELSE IF ~wellformed THEN FloatError
        ELSE IF mant = 0 THEN FloatZero
        ELSE IF expv > MaxFloatExp10 THEN Infinite(sign)
        ELSE IF expv >= 0
             THEN Finite(sign * mant * Pow10(expv), Pow10(Len(frac)))
             ELSE Finite(sign * mant, Pow10(Len(frac)) * Pow10(0 - expv))

FloatFromExponent(sign, body, a, b, c) ==
    FloatLiteral(sign, body, a, b, c, RunEnd(body, c, DigitSet))

FloatFromFraction(sign, body, a, b) ==
    FloatFromExponent(sign, body, a, b,
                      IF Ch(body, b + 1) \in {"+", "-"} THEN b + 2 ELSE b + 1)

FloatFromInteger(sign, body, a) ==
    FloatFromFraction(sign, body, a,
                      IF Ch(body, a) = "." THEN RunEnd(body, a + 1, DigitSet) ELSE a)

FloatUnsigned(sign, body) == FloatFromInteger(sign, body, RunEnd(body, 1, DigitSet))

FloatStripped(s) ==
    FloatUnsigned(IF Ch(s, 1) = "-" THEN -1 ELSE 1,
                  IF Ch(s, 1) \in {"+", "-"} THEN SubSeq(s, 2, Len(s)) ELSE s)

float_of(text) == FloatStripped(str_strip(text))

\* int(x) of a finite float: truncation toward zero
int_of(x) == IF x.n >= 0 THEN x.n \div x.d ELSE 0 - ((0 - x.n) \div x.d)

----------------------------------------------------------------------------
(* load_portfolio.py: cells, parse_float, parse_int                         *)

\* a cell of a csv.DictReader row: its text, or None for a cell the row lacks
Cell(text) == [present |-> TRUE, text |-> text]
NoCell == [present |-> FALSE, text |-> ""]

\* "not value"
Falsy(cell) == ~cell.present \/ cell.text = ""

\* except (ValueError, TypeError): return default
FloatOrDefault(f) == IF f.kind = "error" THEN FloatZero ELSE f

parse_float(cell) ==
    IF Falsy(cell) THEN FloatZero
    ELSE FloatOrDefault(float_of(str_remove(cell.text, {",", "$", "%"})))

Returned(v) == [raised |-> FALSE, exception |-> "", value |-> v]
Raised(e) == [raised |-> TRUE, exception |-> e, value |-> 0]

\* int(f): ValueError (unparsable text, nan) is caught, the OverflowError
\* of an infinite float is not
IntOrDefault(f) ==
    IF f.kind \in {"error", "nan"} THEN Returned(0)
    ELSE IF f.kind = "inf" THEN Raised("OverflowError")
    ELSE Returned(int_of(f))

parse_int(cell) ==
    IF Falsy(cell) THEN Returned(0)
    ELSE IntOrDefault(float_of(str_remove(cell.text, {","})))

----------------------------------------------------------------------------
(* datetime.date *)

IsLeap(y) == (y % 4 = 0 /\ y % 100 # 0) \/ y % 400 = 0

DaysInMonth(y, m) ==
    IF m = 2 THEN (IF IsLeap(y) THEN 29 ELSE 28)
    ELSE IF m \in {4, 6, 9, 11} THEN 30 ELSE 31

\* date(y, m, d) does not raise ValueError
ValidDate(y, m, d) ==
    /\ y \in 1..9999 /\ m \in 1..12
    /\ d >= 1 /\ d <= DaysInMonth(y, m)

RECURSIVE DaysBeforeMonth(_, _)
DaysBeforeMonth(y, m) ==
    IF m = 1 THEN 0 ELSE DaysBeforeMonth(y, m - 1) + DaysInMonth(y, m - 1)

\* date.toordinal()
Ordinal(y, m, d) ==
    365 * (y - 1) + ((y - 1) \div 4) - ((y - 1) \div 100) + ((y - 1) \div 400)
      + DaysBeforeMonth(y, m) + d

\* date.isoformat()
IsoFormat(y, m, d) == Padded(y, 4) \o "-" \o Padded(m, 2) \o "-" \o Padded(d, 2)

----------------------------------------------------------------------------
(* load_portfolio.py: parse_option_symbol *)

SKIP_SYMBOLS == {"CASH", "TOTAL"}

MonthNames == <<"jan", "feb", "mar", "apr", "may", "jun",
                "jul", "aug", "sep", "oct", "nov", "dec">>

\* MONTH_MAP.get(name): the month number, 0 standing for None
MONTH_MAP(name) ==
    IF \E m \in 1..12 : MonthNames[m] = name
    THEN CHOOSE m \in 1..12 : MonthNames[m] = name
    ELSE 0

NoInfo(outcome, exception) ==
    [outcome            |-> outcome,
     exception          |-> exception,
     underlying_symbol  |-> "",
     expiration_date    |-> "",
     strike_price       |-> FloatZero,
     option_type        |-> "",
     days_to_expiration |-> 0]

\* OPTIONS_PATTERN.match(s) with re.IGNORECASE: the six groups, or no match.
\* The character classes of neighbouring pieces are disjoint, so each piece
\* is the longest run of its class.
OPTIONS_PATTERN(s) ==
    LET p1  == RunEnd(s, 1, LetterSet)
        p2  == RunEnd(s, p1, Whitespace)
        p3  == RunEnd(s, p2, LetterSet)
        p4  == RunEnd(s, p3, Whitespace)
        p5  == RunEnd(s, p4, DigitSet)
        p6  == RunEnd(s, p5, Whitespace)
        p7  == RunEnd(s, p6 + 1, DigitSet)
        p8  == RunEnd(s, p7, Whitespace)
        p9  == RunEnd(s, p8 + 1, DigitSet \cup {"."})
        p10 == RunEnd(s, p9, Whitespace)
        rest == SubSeq(s, p10, Len(s))
    IN  IF /\ p1 > 1 /\ p2 > p1
           /\ p3 - p2 = 3 /\ p4 > p3
           /\ p5 - p4 \in {1, 2} /\ p6 > p5
           /\ Ch(s, p6) = "'" /\ p7 - (p6 + 1) = 2 /\ p8 > p7
           /\ Ch(s, p8) = "$" /\ p9 > p8 + 1 /\ p10 > p9
           /\ str_lower(rest) \in {"call", "put"}
        THEN [matched     |-> TRUE,
              underlying  |-> SubSeq(s, 1, p1 - 1),
              month_str   |-> SubSeq(s, p2, p3 - 1),
              day         |-> SubSeq(s, p4, p5 - 1),
              year_2digit |-> SubSeq(s, p6 + 1, p7 - 1),
              strike      |-> SubSeq(s, p8 + 1, p9 - 1),
              option_type |-> rest]
        ELSE [matched     |-> FALSE,
              underlying  |-> "", month_str |-> "", day |-> "",
              year_2digit |-> "", strike |-> "", option_type |-> ""]

\* the underlying kept as written instead of upper-cased
OptionInfoAsWritten(g, month, now) ==
    LET year == 2000 + DigitsValue(g.year_2digit)
        day  == DigitsValue(g.day)
    IN  IF ~ValidDate(year, month, day) THEN NoInfo("none", "")
        ELSE IF float_of(g.strike).kind = "error" THEN NoInfo("raised", "ValueError")
        ELSE [outcome            |-> "option",
              exception          |-> "",
              underlying_symbol  |-> g.underlying,
              expiration_date    |-> IsoFormat(year, month, day),
              strike_price       |-> float_of(g.strike),
              option_type        |-> str_capitalize(g.option_type),
              days_to_expiration |-> Ordinal(year, month, day)
                                       - Ordinal(now[1], now[2], now[3])]

\* lines 78-96: the date, the days to expiration and the returned dictionary;
\* float(strike) is outside the try and its ValueError leaves the function
OptionInfo(g, month, now) ==
    LET year == 2000 + DigitsValue(g.year_2digit)
        day  == DigitsValue(g.day)
    IN  IF ~ValidDate(year, month, day) THEN NoInfo("none", "")
        ELSE IF float_of(g.strike).kind = "error" THEN NoInfo("raised", "ValueError")
        ELSE [outcome            |-> "option",
              exception          |-> "",
              underlying_symbol  |-> str_upper(g.underlying),
              expiration_date    |-> IsoFormat(year, month, day),
              strike_price       |-> float_of(g.strike),
              option_type        |-> str_capitalize(g.option_type),
              days_to_expiration |-> Ordinal(year, month, day)
                                       - Ordinal(now[1], now[2], now[3])]

\* lines 70-96 for the groups of a match
MatchedInfo(g, month, now) ==
    IF month = 0 THEN NoInfo("none", "") ELSE OptionInfo(g, month, now)

\* lines 68-76 for the result of the match
GroupsInfo(g, now) ==
    IF ~g.matched THEN NoInfo("none", "")
    ELSE MatchedInfo(g, MONTH_MAP(str_lower(g.month_str)), now)

parse_option_symbol(symbol, now) == GroupsInfo(OPTIONS_PATTERN(str_strip(symbol)), now)

----------------------------------------------------------------------------
(* load_portfolio.py: load_full_portfolio and load_portfolio                *)
(* A row is a record of cells; amounts and strikes of the positions are     *)
(* floats in dollars and percent, as the loader produces them.              *)

\* the reserved symbols compared as written, without upper-casing
SkipSymbolAsWritten(symbol) == symbol \in SKIP_SYMBOLS

\* symbol.upper() in SKIP_SYMBOLS
SkipSymbol(symbol) == str_upper(symbol) \in SKIP_SYMBOLS

\* a zero quantity let through
KeepsStockNonNegative(quantity) == quantity >= 0

\* if quantity > 0
KeepsStock(quantity) == quantity > 0

\* the quantities of the rows of a ticker added up
StoreStockSumming(stocks, key, quantity) ==
    [k \in DOMAIN stocks \cup {key} |->
        IF k = key
        THEN (IF key \in DOMAIN stocks THEN stocks[key] + quantity ELSE quantity)
        ELSE stocks[k]]

\* stocks[key] = quantity
StoreStock(stocks, key, quantity) ==
    [k \in DOMAIN stocks \cup {key} |-> IF k = key THEN quantity ELSE stocks[k]]

\* a zero quantity counted as short
PositionSideNonPositive(quantity) ==
    [is_short      |-> quantity <= 0,
     position_type |-> IF quantity < 0 THEN "short" ELSE "long"]

\* "is_short" and "position_type" of an option position
PositionSide(quantity) ==
    [is_short      |-> quantity < 0,
     position_type |-> IF quantity < 0 THEN "short" ELSE "long"]

\* the option_position dictionary of lines 185-201
OptionPosition(symbol, info, quantity, row) ==
    [symbol             |-> symbol,
     underlying_symbol  |-> info.underlying_symbol,
     expiration_date    |-> info.expiration_date,
     strike_price       |-> info.strike_price,
     option_type        |-> info.option_type,
     days_to_expiration |-> info.days_to_expiration,
     quantity           |-> quantity,
     is_short           |-> PositionSide(quantity).is_short,
     position_type      |-> PositionSide(quantity).position_type,
     price_paid         |-> parse_float(row.Price_Paid),
     current_price      |-> parse_float(row.Last_Price),
     days_gain          |-> parse_float(row.Days_Gain),
     total_gain         |-> parse_float(row.Total_Gain),
     total_gain_percent |-> parse_float(row.Total_Gain_Percent),
     current_value      |-> parse_float(row.Value)]

\* a position replacing an earlier one with the same symbol
AppendOptionBySymbol(options, position) ==
    IF \E i \in 1..Len(options) : options[i].symbol = position.symbol
    THEN [i \in 1..Len(options) |->
            IF options[i].symbol = position.symbol THEN position ELSE options[i]]
    ELSE Append(options, position)

\* options_portfolio.append(option_position)
AppendOption(options, position) == Append(options, position)

FullRunning(stocks, options) ==
    [outcome |-> "running", exception |-> "",
     stocks_portfolio |-> stocks, options_portfolio |-> options]

FullRaised(acc, exception) ==
    [outcome |-> "raised", exception |-> exception,
     stocks_portfolio |-> acc.stocks_portfolio,
     options_portfolio |-> acc.options_portfolio]

\* lines 203-208: the stock branch
FullStock(acc, symbol, quantity) ==
    IF KeepsStock(quantity)
    THEN FullRunning(StoreStock(acc.stocks_portfolio, str_upper(symbol), quantity),
                     acc.options_portfolio)
    ELSE acc

\* lines 181-208 once the symbol is classified and the quantity read
FullQuantity(acc, row, symbol, info, q) ==
    IF q.raised THEN FullRaised(acc, q.exception)
    ELSE IF info.outcome = "option"
    THEN FullRunning(acc.stocks_portfolio,
             AppendOption(acc.options_portfolio,
                          OptionPosition(symbol, info, q.value, row)))
    ELSE FullStock(acc, symbol, q.value)

\* lines 179-205: an exception of parse_option_symbol leaves the loader
FullClassified(acc, row, symbol, info) ==
    IF info.outcome = "raised" THEN FullRaised(acc, info.exception)
    ELSE FullQuantity(acc, row, symbol, info, parse_int(row.Quantity))

\* lines 170-179 for the trimmed symbol
FullSymbol(acc, row, symbol, now) ==
    IF symbol = "" THEN acc
    ELSE IF SkipSymbol(symbol) THEN acc
    ELSE FullClassified(acc, row, symbol, parse_option_symbol(symbol, now))

\* one iteration of the loop of load_full_portfolio (lines 168-208); nothing
\* is read after an exception; a missing Symbol cell makes .strip() raise
\* AttributeError
FullRow(acc, row, now) ==
    IF acc.outcome = "raised" THEN acc
    ELSE IF ~row.Symbol.present THEN FullRaised(acc, "AttributeError")
    ELSE FullSymbol(acc, row, str_strip(row.Symbol.text), now)

RECURSIVE FullRows(_, _, _)
FullRows(rows, k, now) ==
    IF k = 0 THEN FullRunning(<< >>, << >>)
    ELSE FullRow(FullRows(rows, k - 1, now), rows[k], now)

PendingFull ==
    [outcome |-> "pending", exception |-> "",
     stocks_portfolio |-> << >>, options_portfolio |-> << >>]

\* what load_full_portfolio gives after the loop
FullResult(acc) ==
    IF acc.outcome = "raised"
    THEN [outcome |-> "raised", exception |-> acc.exception,
          stocks_portfolio |-> << >>, options_portfolio |-> << >>]
    ELSE [outcome |-> "returned", exception |-> "",
          stocks_portfolio |-> acc.stocks_portfolio,
          options_portfolio |-> acc.options_portfolio]

\* outcome "none" is the None of a missing file, "raised" an exception that
\* leaves the function, "returned" the dictionary
load_full_portfolio(exists, rows, now) ==
    IF ~exists
    THEN [outcome |-> "none", exception |-> "",
          stocks_portfolio |-> << >>, options_portfolio |-> << >>]
    ELSE FullResult(FullRows(rows, Len(rows), now))

StocksRunning(stocks) ==
    [outcome |-> "running", exception |-> "", portfolio |-> stocks]

StocksRaised(exception) ==
    [outcome |-> "raised", exception |-> exception, portfolio |-> << >>]

\* lines 139-140: the stock stored when its quantity is positive
StocksStore(acc, symbol, quantity) ==
    IF KeepsStock(quantity)
    THEN StocksRunning(StoreStock(acc.portfolio, str_upper(symbol), quantity))
    ELSE acc

\* lines 135-140: a ValueError skips the row, an infinite quantity makes
\* int() raise OverflowError
StocksQuantity(acc, symbol, f) ==
    IF f.kind \in {"error", "nan"} THEN acc
    ELSE IF f.kind = "inf" THEN StocksRaised("OverflowError")
    ELSE StocksStore(acc, symbol, int_of(f))

\* lines 122-136 for the trimmed symbol; a missing Quantity cell makes
\* .replace() raise AttributeError
StocksSymbol(acc, row, symbol) ==
    IF symbol = "" THEN acc
    ELSE IF str_contains(symbol, "Call") \/ str_contains(symbol, "Put") THEN acc
    ELSE IF SkipSymbol(symbol) THEN acc
    ELSE IF ~row.Quantity.present THEN StocksRaised("AttributeError")
    ELSE StocksQuantity(acc, symbol, float_of(str_remove(row.Quantity.text, {","})))

\* one iteration of the loop of load_portfolio (lines 120-141); nothing is
\* read after an exception
StockRow(acc, row) ==
    IF acc.outcome = "raised" THEN acc
    ELSE IF ~row.Symbol.present THEN StocksRaised("AttributeError")
    ELSE StocksSymbol(acc, row, str_strip(row.Symbol.text))

RECURSIVE StockRows(_, _)
StockRows(rows, k) ==
    IF k = 0 THEN StocksRunning(<< >>)
    ELSE StockRow(StockRows(rows, k - 1), rows[k])

PendingStocks == [outcome |-> "pending", exception |-> "", portfolio |-> << >>]

\* what load_portfolio gives after the loop
StocksResult(acc) ==
    IF acc.outcome = "raised" THEN acc
    ELSE [outcome |-> "returned", exception |-> "", portfolio |-> acc.portfolio]

load_portfolio(exists, rows) ==
    IF ~exists
    THEN [outcome |-> "none", exception |-> "", portfolio |-> << >>]
    ELSE StocksResult(StockRows(rows, Len(rows)))

----------------------------------------------------------------------------
(* Inputs *)

DaysValues == {1, 7, 14, 61}
GainValues == {-30000, -15000, 0}
ValueValues == {-12050}

\* <<is_short, total_gain_percent>>: short positions 60% up, 50% up and
\* 66.66% down, long positions 60% up, 20% down and 150% down
SideValues ==
    {<<TRUE, 6000>>, <<TRUE, 5000>>, <<TRUE, -6666>>,
     <<FALSE, 6000>>, <<FALSE, -2000>>, <<FALSE, -15000>>}

OptionDomain ==
    {[days_to_expiration |-> d,
      total_gain         |-> g,
      total_gain_percent |-> s[2],
      is_short           |-> s[1],
      current_value      |-> v] :
        d \in DaysValues, g \in GainValues, s \in SideValues, v \in ValueValues}

DaysRange == (0 - NegDays)..MaxDays

\* <<Symbol, Quantity>> of the rows of the export: a stock ticker in two
\* letter cases, the reserved symbols, a blank symbol, an option, an
\* option-like symbol with an impossible date, one with a strike that is
\* no number; quantities plain, zero,
\* negative, with a thousands separator, with a currency sign, infinite
RowValues ==
    {<<"AAPL", "5">>, <<"AAPL", "0">>, <<"AAPL", "1,234">>, <<"AAPL", "$5">>,
     <<"AAPL", "inf">>,
     <<" aapl", "5">>, <<" aapl", "0">>, <<" aapl", "-2">>,
     <<"Cash", "1,234">>, <<"Cash", "inf">>, <<"TOTAL", "5">>, <<" ", "5">>,
     <<"NVDA Feb 27 '26 $195 Call", "5">>, <<"NVDA Feb 27 '26 $195 Call", "0">>,
     <<"NVDA Feb 27 '26 $195 Call", "-2">>, <<"NVDA Feb 27 '26 $195 Call", "$5">>,
     <<"NVDA Feb 27 '26 $195 Call", "inf">>,
     <<"NVDA Feb 27 '26 $1.2.3 Call", "5">>,
     <<"AAPL Feb 30 '25 $190 Call", "5">>, <<"AAPL Feb 30 '25 $190 Call", "0">>}

RowDomain ==
    {[Symbol             |-> Cell(v[1]),
      Quantity           |-> Cell(v[2]),
      Price_Paid         |-> Cell("$12.50"),
      Last_Price         |-> Cell("n/a"),
      Days_Gain          |-> NoCell,
      Total_Gain         |-> Cell("-300.00"),
      Total_Gain_Percent |-> Cell("-20.00%"),
      Value              |-> Cell("1,205.00")] : v \in RowValues}

Todays == {<<2025, 2, 7>>, <<2026, 2, 28>>}
LoadDay == <<2025, 2, 7>>
NoDate == <<0, 0, 0>>

\* The pieces of a symbol.  Each piece is a text with the meaning the option
\* grammar gives it, or a text the grammar does not allow (good FALSE).
UnderlyingParts ==
    {[text |-> "NVDA", good |-> TRUE, ticker |-> "NVDA"],
     [text |-> "nvda", good |-> TRUE, ticker |-> "NVDA"],
     [text |-> "N1", good |-> FALSE, ticker |-> ""]}

MonthParts ==
    {[text |-> "Feb", good |-> TRUE, month |-> 2],
     [text |-> "DEC", good |-> TRUE, month |-> 12],
     [text |-> "Foo", good |-> FALSE, month |-> 0],
     [text |-> "Sept", good |-> FALSE, month |-> 0]}

DayParts ==
    {[text |-> "7", good |-> TRUE, day |-> 7],
     [text |-> "29", good |-> TRUE, day |-> 29],
     [text |-> "30", good |-> TRUE, day |-> 30],
     [text |-> "031", good |-> FALSE, day |-> 0]}

YearParts ==
    {[text |-> "'26", good |-> TRUE, year |-> 2026],
     [text |-> "'24", good |-> TRUE, year |-> 2024],
     [text |-> "2026", good |-> FALSE, year |-> 0]}

StrikeParts ==
    {[text |-> "$195", good |-> TRUE, strike |-> Finite(195, 1)],
     [text |-> "$195.5", good |-> TRUE, strike |-> Finite(391, 2)],
     [text |-> "$0", good |-> TRUE, strike |-> FloatZero],
     [text |-> "$1.2.3", good |-> FALSE, strike |-> FloatZero],
     [text |-> "195", good |-> FALSE, strike |-> FloatZero]}

KindParts ==
    {[text |-> "Call", good |-> TRUE, kind |-> "Call"],
     [text |-> "PUT", good |-> TRUE, kind |-> "Put"],
     [text |-> "Calls", good |-> FALSE, kind |-> ""]}

GapParts == {" ", "  "}

PartsDomain ==
    [underlying : UnderlyingParts, month : MonthParts, day : DayParts,
     year : YearParts, strike : StrikeParts, kind : KindParts, gap : GapParts]

\* the symbol string written from its pieces
SymbolOf(parts) ==
    parts.underlying.text \o parts.gap \o parts.month.text \o parts.gap
      \o parts.day.text \o parts.gap \o parts.year.text \o parts.gap
      \o parts.strike.text \o parts.gap \o parts.kind.text

NoParts == << >>

----------------------------------------------------------------------------
(* Values of the variables a specification does not use *)

NoCall ==
    [called |-> FALSE, options_portfolio |-> << >>,
     scored_positions |-> << >>, recommendations |-> NoRecommendations]

ScoringIdle ==
    /\ options_portfolio = << >>
    /\ max_loss_dollars = 0
    /\ score_locals = << >>
    /\ scored_positions = << >>
    /\ recommendations = NoRecommendations
    /\ first_call = NoCall

TimeIdle == days_in = << >> /\ time_out = << >>

LoaderIdle ==
    /\ csv_exists = FALSE
    /\ csv_rows = << >>
    /\ today = NoDate
    /\ full_portfolio = PendingFull
    /\ portfolio = PendingStocks

ParserIdle ==
    /\ symbol_parts = NoParts
    /\ symbol_in = ""
    /\ option_info = NoInfo("pending", "")

\* calculate_options_summary has not been called
PendingSummary == [outcome |-> "pending"]

SummaryIdle == summary_in = << >> /\ summary = PendingSummary

CompareIdle == calendar_recs = << >>

\* no sync run has started
NoArgs == [create_all |-> FALSE, update_all |-> FALSE, dry_run |-> FALSE]

\* created_count, updated_count, skipped_count before the loop
NoCounts == [created |-> 0, updated |-> 0, skipped |-> 0]

SyncIdle ==
    /\ sync_args = NoArgs
    /\ sync_options = << >>
    /\ calendar = << >>
    /\ service_calls = << >>
    /\ sync_counts = NoCounts

\* fetch_market_data has not been called
PendingFetch == [outcome |-> "pending"]

FetchIdle ==
    /\ fetch_failing = {}
    /\ fetch_portfolio = {}
    /\ fetch_result = PendingFetch
    /\ exit_code = << >>

ReportIdle == SummaryIdle /\ CompareIdle /\ SyncIdle /\ FetchIdle

----------------------------------------------------------------------------
(* The caller of calculate_action_recommendations *)

Init ==
    /\ pc = "input"
    /\ ScoringIdle
    /\ ReportIdle
    /\ TimeIdle
    /\ LoaderIdle
    /\ ParserIdle

\* one more position read into the option list
AddOption ==
    /\ pc = "input"
    /\ Len(options_portfolio) < MaxOpts
    /\ \E opt \in OptionDomain :
         options_portfolio' = Append(options_portfolio, opt)
    /\ UNCHANGED <<pc, max_loss_dollars, score_locals, scored_positions,
                   recommendations, first_call>>
    /\ UNCHANGED <<time_vars, loader_vars, parser_vars, report_vars>>

\* calculate_action_recommendations(options_portfolio) on an empty list
RecommendNone ==
    /\ pc = "input"
    /\ options_portfolio = << >>
    /\ pc' = "none"
    /\ UNCHANGED <<scoring_vars, time_vars, loader_vars, parser_vars, report_vars>>

\* the call leaving its argument list in reverse order
RecommendReversingInput ==
    /\ pc = "input"
    /\ options_portfolio # << >>
    /\ max_loss_dollars' = MaxLossDollars(options_portfolio)
    /\ score_locals' = [i \in 1..Len(options_portfolio) |->
                          ScoreLocals(options_portfolio[i], max_loss_dollars')]
    /\ scored_positions' = [i \in 1..Len(options_portfolio) |->
                              PositionData(options_portfolio[i], score_locals'[i])]
    /\ recommendations' =
         [profit_taking_opportunities |-> ProfitTaking(scored_positions'),
          urgent_losses               |-> UrgentLosses(scored_positions'),
          expiring_this_week          |-> ExpiringWithin(scored_positions', 7),
          expiring_next_week          |-> ExpiringWithin(scored_positions', 14),
          all_positions_by_priority   |-> AllByPriority(scored_positions')]
    /\ first_call' = [called |-> TRUE,
                      options_portfolio |-> options_portfolio,
                      scored_positions |-> scored_positions',
                      recommendations |-> recommendations']
    /\ pc' = "returned"
    /\ options_portfolio' = Reverse(options_portfolio)
    /\ UNCHANGED <<time_vars, loader_vars, parser_vars, report_vars>>

\* calculate_action_recommendations(options_portfolio) on a non-empty list;
\* first_call keeps the argument as it was on entry and what was returned
Recommend ==
    /\ pc = "input"
    /\ options_portfolio # << >>
    /\ max_loss_dollars' = MaxLossDollars(options_portfolio)
    /\ score_locals' = [i \in 1..Len(options_portfolio) |->
                          ScoreLocals(options_portfolio[i], max_loss_dollars')]
    /\ scored_positions' = [i \in 1..Len(options_portfolio) |->
                              PositionData(options_portfolio[i], score_locals'[i])]
    /\ recommendations' =
         [profit_taking_opportunities |-> ProfitTaking(scored_positions'),
          urgent_losses               |-> UrgentLosses(scored_positions'),
          expiring_this_week          |-> ExpiringWithin(scored_positions', 7),
          expiring_next_week          |-> ExpiringWithin(scored_positions', 14),
          all_positions_by_priority   |-> AllByPriority(scored_positions')]
    /\ first_call' = [called |-> TRUE,
                      options_portfolio |-> options_portfolio,
                      scored_positions |-> scored_positions',
                      recommendations |-> recommendations']
    /\ pc' = "returned"
    /\ UNCHANGED <<options_portfolio, time_vars, loader_vars, parser_vars, report_vars>>

Next == AddOption \/ RecommendNone \/ Recommend

Spec == Init /\ [][Next]_vars

----------------------------------------------------------------------------
(* A caller that runs calculate_action_recommendations a second time on the *)
(* same list object                                                         *)

RecommendAgain ==
    /\ pc = "returned"
    /\ max_loss_dollars' = MaxLossDollars(options_portfolio)
    /\ score_locals' = [i \in 1..Len(options_portfolio) |->
                          ScoreLocals(options_portfolio[i], max_loss_dollars')]
    /\ scored_positions' = [i \in 1..Len(options_portfolio) |->
                              PositionData(options_portfolio[i], score_locals'[i])]
    /\ recommendations' =
         [profit_taking_opportunities |-> ProfitTaking(scored_positions'),
          urgent_losses               |-> UrgentLosses(scored_positions'),
          expiring_this_week          |-> ExpiringWithin(scored_positions', 7),
          expiring_next_week          |-> ExpiringWithin(scored_positions', 14),
          all_positions_by_priority   |-> AllByPriority(scored_positions')]
    /\ pc' = "returned again"
    /\ UNCHANGED <<options_portfolio, first_call, time_vars, loader_vars,
                   parser_vars, report_vars>>

NextAgain == AddOption \/ RecommendNone \/ Recommend \/ RecommendAgain

SpecAgain == Init /\ [][NextAgain]_vars

----------------------------------------------------------------------------
(* A caller of calculate_time_urgency_score on two day counts *)

InitTime ==
    /\ pc = "time"
    /\ ScoringIdle
    /\ ReportIdle
    /\ days_in \in DaysRange \X DaysRange
    /\ time_out = << >>
    /\ LoaderIdle
    /\ ParserIdle

TimeUrgency ==
    /\ pc = "time"
    /\ time_out = << >>
    /\ time_out' = [k \in 1..2 |->
                       [summary  |-> calculate_time_urgency_score(days_in[k]),
                        calendar |-> calendar_time_urgency_score(days_in[k])]]
    /\ UNCHANGED <<pc, days_in, scoring_vars, loader_vars, parser_vars, report_vars>>

NextTime == TimeUrgency

SpecTime == InitTime /\ [][NextTime]_vars

----------------------------------------------------------------------------
(* The portfolio file read by the two loaders *)

InitLoad ==
    /\ pc = "rows"
    /\ ScoringIdle
    /\ ReportIdle
    /\ TimeIdle
    /\ ParserIdle
    /\ csv_exists \in BOOLEAN
    /\ csv_rows = << >>
    /\ today = LoadDay
    /\ full_portfolio = PendingFull
    /\ portfolio = PendingStocks

\* one more row in the file, before any loader has read it
AddRow ==
    /\ pc = "rows"
    /\ csv_exists
    /\ full_portfolio = PendingFull
    /\ portfolio = PendingStocks
    /\ Len(csv_rows) < MaxRows
    /\ \E row \in RowDomain : csv_rows' = Append(csv_rows, row)
    /\ UNCHANGED <<pc, csv_exists, today, full_portfolio, portfolio>>
    /\ UNCHANGED <<scoring_vars, time_vars, parser_vars, report_vars>>

LoadFullPortfolio ==
    /\ pc = "rows"
    /\ full_portfolio = PendingFull
    /\ full_portfolio' = load_full_portfolio(csv_exists, csv_rows, today)
    /\ UNCHANGED <<pc, csv_exists, csv_rows, today, portfolio>>
    /\ UNCHANGED <<scoring_vars, time_vars, parser_vars, report_vars>>

LoadPortfolio ==
    /\ pc = "rows"
    /\ portfolio = PendingStocks
    /\ portfolio' = load_portfolio(csv_exists, csv_rows)
    /\ UNCHANGED <<pc, csv_exists, csv_rows, today, full_portfolio>>
    /\ UNCHANGED <<scoring_vars, time_vars, parser_vars, report_vars>>

NextLoad == AddRow \/ LoadFullPortfolio \/ LoadPortfolio

SpecLoad == InitLoad /\ [][NextLoad]_vars

----------------------------------------------------------------------------
(* A caller of parse_option_symbol *)

InitParse ==
    /\ pc = "parse"
    /\ ScoringIdle
    /\ ReportIdle
    /\ TimeIdle
    /\ csv_exists = FALSE
    /\ csv_rows = << >>
    /\ today \in Todays
    /\ full_portfolio = PendingFull
    /\ portfolio = PendingStocks
    /\ symbol_parts \in PartsDomain
    /\ symbol_in = SymbolOf(symbol_parts)
    /\ option_info = NoInfo("pending", "")

ParseOptionSymbol ==
    /\ pc = "parse"
    /\ option_info.outcome = "pending"
    /\ option_info' = parse_option_symbol(symbol_in, today)
    /\ UNCHANGED <<pc, symbol_parts, symbol_in>>
    /\ UNCHANGED <<scoring_vars, time_vars, loader_vars, report_vars>>

NextParse == ParseOptionSymbol

SpecParse == InitParse /\ [][NextParse]_vars

----------------------------------------------------------------------------
(* Vocabulary of the properties *)

Positions == 1..Len(scored_positions)

Range(view) == {view[k] : k \in 1..Len(view)}

\* the view lists exactly the positions of the set, each once
ListsExactly(view, set) ==
    /\ Range(view) = set
    /\ Len(view) = Cardinality(set)

Descending(view, field) ==
    \A k \in 1..(Len(view) - 1) :
        scored_positions[view[k]][field] >= scored_positions[view[k + 1]][field]

Ascending(view, field) ==
    \A k \in 1..(Len(view) - 1) :
        scored_positions[view[k]][field] <= scored_positions[view[k + 1]][field]

\* positions with equal keys keep the order of the input list
TiesInInputOrder(view, field) ==
    \A k, l \in 1..Len(view) :
        (k < l /\ scored_positions[view[k]][field] = scored_positions[view[l]][field])
            => view[k] < view[l]

HasTie(view, field) ==
    \E k, l \in 1..Len(view) :
        k < l /\ scored_positions[view[k]][field] = scored_positions[view[l]][field]

\* 0.4*time + 0.3*loss_dollar + 0.3*loss_percent of the unrounded locals
WeightedSum(loc) ==
    RMul(Rat(1, 10),
         RAdd(RMul(RInt(4), loc.time_score),
              RMul(RInt(3), RAdd(loc.loss_dollar_score, loc.loss_percent_score))))

\* h hundredths is x rounded to two decimals: |100 x - h| <= 1/2
IsRounding2(h, x) == 2 * Abs(100 * x.n - h * x.d) <= x.d

LossActions == {"CLOSE IMMEDIATELY", "HIGH PRIORITY", "MONITOR", "WATCH"}

----------------------------------------------------------------------------
(* C1: for every integer days-to-expiration d, negative ones included, the  *)
(* time urgency score lies in [0,100], is 100 for d < 7, is 0 for d >= 180, *)
(* and never increases as d increases.                                      *)
C1_TimeUrgencyContract ==
    (pc = "time" /\ time_out # << >>) =>
        \A copy \in {"summary", "calendar"} :
            /\ \A k \in 1..2 :
                 /\ RLe(RInt(0), time_out[k][copy])
                 /\ RLe(time_out[k][copy], RInt(100))
                 /\ (days_in[k] < 7 => time_out[k][copy] = RInt(100))
                 /\ (days_in[k] >= 180 => time_out[k][copy] = RInt(0))
            /\ (days_in[1] <= days_in[2]
                  => RGe(time_out[1][copy], time_out[2][copy]))

C1_Witness ==
    /\ pc = "time"
    /\ days_in = <<-3, 100>>
    /\ time_out = <<[summary |-> RInt(100), calendar |-> RInt(100)],
                    [summary |-> Rat(80, 3), calendar |-> Rat(80, 3)]>>

(* C2: the reported combined_priority_score of every position lies in      *)
(* [0,100] and is 0.4*time + 0.3*loss_dollar + 0.3*loss_percent of the      *)
(* position's unrounded scores, rounded to two decimals.                    *)
C2_CombinedPriorityScore ==
    pc = "returned" =>
        \A i \in Positions :
            /\ scored_positions[i].combined_priority_score \in 0..10000
            /\ IsRounding2(scored_positions[i].combined_priority_score,
                           WeightedSum(score_locals[i]))

\* a position whose weighted sum 89.998 is not a whole number of hundredths
C2_Witness ==
    /\ pc = "returned"
    /\ \E i \in Positions :
         /\ WeightedSum(score_locals[i]) = Rat(89998, 1000)
         /\ scored_positions[i].combined_priority_score = 9000

C4_TierOfReportedScore ==
    pc = "returned" =>
        \A i \in Positions :
            LET h == scored_positions[i].combined_priority_score
                t == scored_positions[i].urgency_level
            IN  /\ (t = "CRITICAL") <=> (h >= 9000)
                /\ (t = "HIGH") <=> (h >= 7000 /\ h < 9000)
                /\ (t = "MEDIUM") <=> (h >= 5000 /\ h < 7000)
                /\ (t = "LOW") <=> (h < 5000)

(* C5: max_loss_dollars is the largest |total_gain| among the losing       *)
(* positions (0 without one); a position's loss-dollar score is 0 when      *)
(* total_gain >= 0 or max_loss_dollars = 0, else |total_gain| /             *)
(* max_loss_dollars * 100; it lies in [0,100] and is 100 for the largest    *)
(* loss of the portfolio.                                                   *)
C5_LossDollarScore ==
    pc = "returned" =>
        LET losers == {i \in Positions : options_portfolio[i].total_gain < 0}
        IN  /\ (losers = {} => max_loss_dollars = 0)
            /\ (losers # {} =>
                  /\ \E i \in losers :
                        max_loss_dollars = Abs(options_portfolio[i].total_gain)
                  /\ \A i \in losers :
                        Abs(options_portfolio[i].total_gain) <= max_loss_dollars)
            /\ \A i \in Positions :
                 LET g  == options_portfolio[i].total_gain
                     ld == score_locals[i].loss_dollar_score
                 IN  /\ (g >= 0 \/ max_loss_dollars = 0) => ld = RInt(0)
                     /\ (g < 0 /\ max_loss_dollars # 0) =>
                           ld.n * max_loss_dollars = Abs(g) * 100 * ld.d
                     /\ RLe(RInt(0), ld) /\ RLe(ld, RInt(100))
                     /\ (g < 0 /\ \A j \in losers :
                                     Abs(options_portfolio[j].total_gain) <= Abs(g))
                           => ld = RInt(100)

\* a smaller loss listed after the largest one scores 50
C5_Witness ==
    /\ pc = "returned"
    /\ Len(options_portfolio) = 2
    /\ options_portfolio[1].total_gain = -30000
    /\ options_portfolio[2].total_gain = -15000
    /\ score_locals[1].loss_dollar_score = RInt(100)
    /\ score_locals[2].loss_dollar_score = RInt(50)

(* C6: urgent_losses lists exactly the positions whose reported combined   *)
(* score is >= 70 or that expire in fewer than 7 days with total_gain < 0,  *)
(* each once, by reported combined score descending.                        *)
C6_UrgentLosses ==
    pc = "returned" =>
        /\ ListsExactly(recommendations.urgent_losses,
              {i \in Positions :
                  \/ scored_positions[i].combined_priority_score >= 7000
                  \/ /\ scored_positions[i].days_to_expiration < 7
                     /\ scored_positions[i].total_gain < 0})
        /\ Descending(recommendations.urgent_losses, "combined_priority_score")

\* an expiring loser scored below 70 listed after a later-expiring position
\* scored 70 or more
C6_Witness ==
    /\ pc = "returned"
    /\ Len(recommendations.urgent_losses) = 2
    /\ LET a == scored_positions[recommendations.urgent_losses[1]]
           b == scored_positions[recommendations.urgent_losses[2]]
       IN  /\ a.combined_priority_score >= 7000 /\ a.days_to_expiration >= 7
           /\ b.combined_priority_score < 7000 /\ b.days_to_expiration < 7
           /\ recommendations.urgent_losses = <<2, 1>>

(* C7: profit_taking_opportunities lists exactly the short positions with  *)
(* total_gain_percent >= 50, each once, by total_gain_percent descending;   *)
(* no long position is in it.                                               *)
C7_ProfitTaking ==
    pc = "returned" =>
        /\ ListsExactly(recommendations.profit_taking_opportunities,
              {i \in Positions :
                  /\ scored_positions[i].is_short
                  /\ scored_positions[i].total_gain_percent >= 5000})
        /\ Descending(recommendations.profit_taking_opportunities,
                      "total_gain_percent")
        /\ \A i \in Range(recommendations.profit_taking_opportunities) :
              scored_positions[i].is_short

\* a long position 60% up stays out while a short one 50% up is listed
C7_Witness ==
    /\ pc = "returned"
    /\ Len(scored_positions) = 2
    /\ ~scored_positions[1].is_short
    /\ scored_positions[1].total_gain_percent = 6000
    /\ scored_positions[2].is_short
    /\ scored_positions[2].total_gain_percent = 5000
    /\ recommendations.profit_taking_opportunities = <<2>>

(* C8: expiring_this_week lists exactly the positions with                 *)
(* days_to_expiration <= 7 and expiring_next_week exactly those with        *)
(* days_to_expiration <= 14, both by days_to_expiration ascending; every    *)
(* position of expiring_this_week is also in expiring_next_week.            *)
C8_ExpiringViews ==
    pc = "returned" =>
        /\ ListsExactly(recommendations.expiring_this_week,
              {i \in Positions : scored_positions[i].days_to_expiration <= 7})
        /\ ListsExactly(recommendations.expiring_next_week,
              {i \in Positions : scored_positions[i].days_to_expiration <= 14})
        /\ Ascending(recommendations.expiring_this_week, "days_to_expiration")
        /\ Ascending(recommendations.expiring_next_week, "days_to_expiration")
        /\ Range(recommendations.expiring_this_week)
              \subseteq Range(recommendations.expiring_next_week)

\* a position 14 days out and one exactly 7 days out, listed in that order
C8_Witness ==
    /\ pc = "returned"
    /\ Len(scored_positions) = 2
    /\ scored_positions[1].days_to_expiration = 14
    /\ scored_positions[2].days_to_expiration = 7
    /\ recommendations.expiring_this_week = <<2>>
    /\ recommendations.expiring_next_week = <<2, 1>>

(* C9: all_positions_by_priority is a permutation of the scored input, as  *)
(* long as the option list, by combined priority score descending.          *)
C9_AllByPriority ==
    pc = "returned" =>
        /\ Len(recommendations.all_positions_by_priority) = Len(options_portfolio)
        /\ Len(scored_positions) = Len(options_portfolio)
        /\ ListsExactly(recommendations.all_positions_by_priority, Positions)
        /\ Descending(recommendations.all_positions_by_priority,
                      "combined_priority_score")

\* the second position outranks the first
C9_Witness ==
    /\ pc = "returned"
    /\ Len(options_portfolio) = 2
    /\ scored_positions[1].combined_priority_score
          < scored_positions[2].combined_priority_score
    /\ recommendations.all_positions_by_priority = <<2, 1>>

(* C10: in each of the five views two positions with equal sort keys are   *)
(* in the order of the input list, in the descending sorts as in the        *)
(* ascending ones.                                                          *)
C10_StableSorts ==
    pc = "returned" =>
        /\ TiesInInputOrder(recommendations.profit_taking_opportunities,
                            "total_gain_percent")
        /\ TiesInInputOrder(recommendations.urgent_losses,
                            "combined_priority_score")
        /\ TiesInInputOrder(recommendations.expiring_this_week,
                            "days_to_expiration")
        /\ TiesInInputOrder(recommendations.expiring_next_week,
                            "days_to_expiration")
        /\ TiesInInputOrder(recommendations.all_positions_by_priority,
                            "combined_priority_score")

\* two different positions tie in a descending view and in an ascending one
C10_Witness ==
    /\ pc = "returned"
    /\ Len(scored_positions) = 2
    /\ scored_positions[1] # scored_positions[2]
    /\ HasTie(recommendations.profit_taking_opportunities, "total_gain_percent")
    /\ HasTie(recommendations.expiring_this_week, "days_to_expiration")
    /\ recommendations.profit_taking_opportunities = <<1, 2>>
    /\ recommendations.expiring_this_week = <<1, 2>>

----------------------------------------------------------------------------
(* Vocabulary of the loader properties *)

Rows == 1..Len(csv_rows)
TrimmedSymbol(k) == str_strip(csv_rows[k].Symbol.text)
Ticker(k) == str_upper(TrimmedSymbol(k))

\* the row is one the loaders pass over: no symbol, or a reserved one
Reserved(k) == TrimmedSymbol(k) = "" \/ Ticker(k) \in {"CASH", "TOTAL"}

\* the symbol has the textual shape of an option symbol with a month name
OptionShaped(k) ==
    LET g == OPTIONS_PATTERN(TrimmedSymbol(k))
    IN  g.matched /\ MONTH_MAP(str_lower(g.month_str)) # 0

Classified(k) == parse_option_symbol(TrimmedSymbol(k), today).outcome
IsOptionRow(k) == ~Reserved(k) /\ Classified(k) = "option"
IsStockRow(k) == ~Reserved(k) /\ Classified(k) = "none"

\* the quantity the loader reads from the row
QuantityOf(k) == parse_int(csv_rows[k].Quantity).value

\* a numeric cell read as the field rule words it: ',', '$' and '%' removed,
\* 0 for what is left when it is not a number
StrippedNumber(cell) ==
    IF Falsy(cell) THEN FloatZero
    ELSE LET f == float_of(str_remove(cell.text, {",", "$", "%"}))
         IN  IF f.kind = "finite" THEN f ELSE FloatZero

StrippedQuantity(cell) == int_of(StrippedNumber(cell))

FullReturned == full_portfolio.outcome = "returned"
StocksReturned == portfolio.outcome = "returned"
Stocks == full_portfolio.stocks_portfolio
Options == full_portfolio.options_portfolio

\* the rows without the reserved ones, in file order
RECURSIVE WithoutReserved(_)
WithoutReserved(k) ==
    IF k = 0 THEN << >>
    ELSE IF Reserved(k) THEN WithoutReserved(k - 1)
    ELSE Append(WithoutReserved(k - 1), csv_rows[k])

\* the indices of the option rows, in file order
RECURSIVE OptionRowsUpTo(_)
OptionRowsUpTo(k) ==
    IF k = 0 THEN << >>
    ELSE IF IsOptionRow(k) THEN Append(OptionRowsUpTo(k - 1), k)
    ELSE OptionRowsUpTo(k - 1)

\* the last stock row of a ticker, and the last one with a quantity > 0
LastStockRow(t) ==
    CHOOSE k \in Rows :
        /\ IsStockRow(k) /\ Ticker(k) = t
        /\ \A j \in Rows : (IsStockRow(j) /\ Ticker(j) = t) => j <= k

HasPositiveRow(t) ==
    \E k \in Rows : IsStockRow(k) /\ Ticker(k) = t /\ QuantityOf(k) > 0

LastPositiveRow(t) ==
    CHOOSE k \in Rows :
        /\ IsStockRow(k) /\ Ticker(k) = t /\ QuantityOf(k) > 0
        /\ \A j \in Rows :
             (IsStockRow(j) /\ Ticker(j) = t /\ QuantityOf(j) > 0) => j <= k

StockTickers == {Ticker(k) : k \in {j \in Rows : IsStockRow(j)}}

\* the position records a view lists, in the view's order
ViewRecords(view, positions) == [k \in 1..Len(view) |-> positions[view[k]]]

----------------------------------------------------------------------------
(* C11 .. C15 *)

C12_NoExceptionLeavesLoader ==
    (csv_exists /\ full_portfolio.outcome # "pending") => FullReturned

(* C13: every numeric field of a row, the quantity as well as the amounts, *)
(* is parsed after stripping ',', '$' and '%', and takes 0 when what is    *)
(* left is not a number: an option position carries the stripped quantity  *)
(* and amounts of its row, a stock row with a stripped quantity > 0 that   *)
(* is the last of its ticker is stored with that quantity.                 *)
C13_NumericFieldsStripped ==
    FullReturned =>
        /\ \A i \in 1..Len(Options) :
             LET k == OptionRowsUpTo(Len(csv_rows))[i]
             IN  /\ Options[i].quantity = StrippedQuantity(csv_rows[k].Quantity)
                 /\ Options[i].price_paid = StrippedNumber(csv_rows[k].Price_Paid)
                 /\ Options[i].total_gain_percent
                      = StrippedNumber(csv_rows[k].Total_Gain_Percent)
                 /\ Options[i].current_value = StrippedNumber(csv_rows[k].Value)
        /\ \A t \in StockTickers :
             LET q == StrippedQuantity(csv_rows[LastStockRow(t)].Quantity)
             IN  q > 0 => (t \in DOMAIN Stocks /\ Stocks[t] = q)

(* C14: a row whose symbol has the option shape but names an impossible    *)
(* calendar date is in neither output: no option position carries its      *)
(* symbol and no stock entry is keyed by its uppercased symbol, whichever  *)
(* loader produced the stock mapping.                                      *)
C14_ImpossibleDateExcluded ==
    \A k \in Rows :
        (OptionShaped(k) /\ Classified(k) = "none") =>
            /\ FullReturned =>
                 /\ \A i \in 1..Len(Options) : Options[i].symbol # TrimmedSymbol(k)
                 /\ Ticker(k) \notin DOMAIN Stocks
            /\ StocksReturned => Ticker(k) \notin DOMAIN portfolio.portfolio

(* C15: a row whose trimmed symbol is empty or, uppercased, CASH or TOTAL  *)
(* contributes nothing to the stock mapping or the option sequence: each   *)
(* loader gives what it gives for the file without these rows, and no key  *)
(* CASH or TOTAL is in the stock output.                                   *)
C15_ReservedRowsSkipped ==
    /\ full_portfolio.outcome # "pending" =>
         /\ full_portfolio
              = load_full_portfolio(csv_exists, WithoutReserved(Len(csv_rows)), today)
         /\ DOMAIN Stocks \cap {"", "CASH", "TOTAL"} = {}
         /\ \A i \in 1..Len(Options) :
              str_upper(Options[i].symbol) \notin {"", "CASH", "TOTAL"}
    /\ portfolio.outcome # "pending" =>
         /\ portfolio = load_portfolio(csv_exists, WithoutReserved(Len(csv_rows)))
         /\ DOMAIN portfolio.portfolio \cap {"", "CASH", "TOTAL"} = {}

\* a file with a reserved row that carries a quantity, beside a stored stock
C15_Witness ==
    /\ FullReturned /\ StocksReturned
    /\ \E k \in Rows : Ticker(k) = "CASH" /\ QuantityOf(k) = 1234
    /\ DOMAIN Stocks = {"AAPL"}
    /\ DOMAIN portfolio.portfolio = {"AAPL"}

----------------------------------------------------------------------------
(* C16 .. C20 *)

(* C16: every quantity stored in the stock mapping is an integer > 0; a    *)
(* stock row with a quantity <= 0 or an unparsable one never creates an    *)
(* entry, so a ticker without a row of quantity > 0 has none.              *)
C16_StoredQuantitiesPositive ==
    /\ FullReturned =>
         /\ \A t \in DOMAIN Stocks : Stocks[t] \in Nat /\ Stocks[t] > 0
         /\ \A k \in Rows : ~HasPositiveRow(Ticker(k)) => Ticker(k) \notin DOMAIN Stocks
    /\ StocksReturned =>
         /\ \A t \in DOMAIN portfolio.portfolio :
              portfolio.portfolio[t] \in Nat /\ portfolio.portfolio[t] > 0
         /\ \A k \in Rows :
              ~HasPositiveRow(Ticker(k)) => Ticker(k) \notin DOMAIN portfolio.portfolio

\* a negative and an unparsable quantity, and neither loader stores a thing
C16_Witness ==
    /\ FullReturned /\ StocksReturned
    /\ \E k \in Rows : IsStockRow(k) /\ QuantityOf(k) = -2
    /\ \E k \in Rows : IsStockRow(k) /\ csv_rows[k].Quantity.text = "$5"
    /\ DOMAIN Stocks = {}
    /\ DOMAIN portfolio.portfolio = {}

(* C17 as stated: the entry of a ticker reflects the last stock row of     *)
(* that ticker in file order, also when that row carries a quantity <= 0,  *)
(* in which case the ticker has no entry.                                  *)
C17_LastRowWins ==
    FullReturned =>
        \A t \in StockTickers :
            LET q == QuantityOf(LastStockRow(t))
            IN  IF q > 0 THEN t \in DOMAIN Stocks /\ Stocks[t] = q
                ELSE t \notin DOMAIN Stocks

(* C17 amended: the entry of a ticker is the quantity of the last stock    *)
(* row of that ticker with a quantity > 0 (not a sum); rows with a         *)
(* quantity <= 0 neither store nor remove an entry, and a ticker without   *)
(* a row of quantity > 0 has no entry.                                     *)
C17_LastPositiveRowWins ==
    FullReturned =>
        /\ DOMAIN Stocks \subseteq StockTickers
        /\ \A t \in StockTickers :
             IF HasPositiveRow(t)
             THEN t \in DOMAIN Stocks /\ Stocks[t] = QuantityOf(LastPositiveRow(t))
             ELSE t \notin DOMAIN Stocks

\* a ticker whose last row has quantity 0 keeps the quantity of the row before
C17_Witness ==
    /\ FullReturned
    /\ \E t \in StockTickers :
         /\ HasPositiveRow(t)
         /\ LastPositiveRow(t) < LastStockRow(t)
         /\ QuantityOf(LastStockRow(t)) <= 0
         /\ Stocks[t] = QuantityOf(LastPositiveRow(t))

(* C18: the option sequence of load_full_portfolio has one entry per row   *)
(* recognised as an option, in file order; rows with the same symbol give  *)
(* distinct entries and the length is the number of option rows whatever   *)
(* their quantities.                                                       *)
C18_OptionSequence ==
    FullReturned =>
        LET rows == OptionRowsUpTo(Len(csv_rows))
        IN  /\ Len(Options) = Len(rows)
            /\ \A i \in 1..Len(rows) :
                 i <= Len(Options) =>
                     /\ Options[i].symbol = TrimmedSymbol(rows[i])
                     /\ Options[i].quantity = QuantityOf(rows[i])

\* two lots of one symbol, a zero one before a short one
C18_Witness ==
    /\ FullReturned
    /\ Len(Options) = 2
    /\ Options[1].symbol = Options[2].symbol
    /\ Options[1].quantity = 0
    /\ Options[2].quantity = -2

(* C19: for every option position of the loader is_short is true iff       *)
(* quantity < 0, and position_type is "short" iff quantity < 0 and "long"  *)
(* otherwise (quantity 0 is long).                                         *)
C19_PositionSide ==
    FullReturned =>
        \A i \in 1..Len(Options) :
            /\ Options[i].is_short \in BOOLEAN
            /\ Options[i].is_short <=> Options[i].quantity < 0
            /\ Options[i].position_type
                 = (IF Options[i].quantity < 0 THEN "short" ELSE "long")
            /\ Options[i].is_short <=> Options[i].position_type = "short"

\* a long position of quantity 0 beside a short one
C19_Witness ==
    /\ FullReturned
    /\ \E i \in 1..Len(Options) :
         /\ Options[i].quantity = 0
         /\ ~Options[i].is_short
         /\ Options[i].position_type = "long"
    /\ \E i \in 1..Len(Options) :
         /\ Options[i].quantity < 0
         /\ Options[i].is_short
         /\ Options[i].position_type = "short"

\* every piece of the symbol is one the option grammar allows
Grammatical(parts) ==
    /\ parts.underlying.good /\ parts.month.good /\ parts.day.good
    /\ parts.year.good /\ parts.strike.good /\ parts.kind.good

(* C20: a symbol that matches the full option grammar with a valid         *)
(* calendar date classifies as an option with the uppercased ticker, the   *)
(* expiration date (2000+YY, month of Mon, Day), the matched strike and    *)
(* the kind normalised to "Call" or "Put"; a symbol that does not match    *)
(* the grammar never classifies as an option.                              *)
C20_OptionGrammar ==
    option_info.outcome # "pending" =>
        LET p == symbol_parts
        IN  /\ (Grammatical(p) /\ ValidDate(p.year.year, p.month.month, p.day.day)) =>
                 /\ option_info.outcome = "option"
                 /\ option_info.underlying_symbol = p.underlying.ticker
                 /\ option_info.expiration_date
                      = IsoFormat(p.year.year, p.month.month, p.day.day)
                 /\ option_info.strike_price = p.strike.strike
                 /\ option_info.option_type = p.kind.kind
            /\ ~Grammatical(p) => option_info.outcome # "option"

\* a lower-case ticker, an upper-case month and kind, a fractional strike
C20_Witness ==
    /\ option_info.outcome = "option"
    /\ symbol_in = "nvda  DEC  30  '24  $195.5  PUT"
    /\ option_info.underlying_symbol = "NVDA"
    /\ option_info.expiration_date = "2024-12-30"
    /\ option_info.option_type = "Put"

----------------------------------------------------------------------------
(* C21 .. C30 *)

(* C21: every option descriptor of parse_option_symbol has an expiration   *)
(* date that is a valid calendar date and a strike price strictly greater  *)
(* than 0; a symbol with strike $0 does not yield an option.               *)
C21_ValidDatePositiveStrike ==
    option_info.outcome = "option" =>
        /\ ValidDate(symbol_parts.year.year, symbol_parts.month.month,
                     symbol_parts.day.day)
        /\ option_info.expiration_date
             = IsoFormat(symbol_parts.year.year, symbol_parts.month.month,
                         symbol_parts.day.day)
        /\ option_info.strike_price.kind = "finite"
        /\ option_info.strike_price.n > 0

\* the portfolio of one long option one day from expiration, 300 dollars
\* and 20 percent down
OneLosingLong ==
    /\ Len(options_portfolio) = 1
    /\ options_portfolio[1].days_to_expiration = 1
    /\ options_portfolio[1].total_gain = -30000
    /\ options_portfolio[1].total_gain_percent = -2000
    /\ ~options_portfolio[1].is_short

(* C22: one long option with 1 day to expiration, total_gain -300 and      *)
(* total_gain_percent -20 gets max_loss_dollars 300, time score 100,       *)
(* loss-dollar score 100, loss-percent score 20, combined score 76, tier   *)
(* HIGH and the high-priority action, and is listed in urgent_losses and   *)
(* in expiring_this_week.                                                  *)
C22_OneLosingLongScored ==
    (pc = "returned" /\ OneLosingLong) =>
        /\ max_loss_dollars = 30000
        /\ scored_positions[1].time_urgency_score = 10000
        /\ scored_positions[1].loss_dollar_score = 10000
        /\ scored_positions[1].loss_percent_score = 2000
        /\ scored_positions[1].combined_priority_score = 7600
        /\ scored_positions[1].urgency_level = "HIGH"
        /\ scored_positions[1].recommended_action = <<"HIGH PRIORITY">>
        /\ recommendations.urgent_losses = <<1>>
        /\ recommendations.expiring_this_week = <<1>>

C22_Witness ==
    /\ pc = "returned"
    /\ OneLosingLong
    /\ score_locals[1].combined_score = RInt(76)
    /\ recommendations.profit_taking_opportunities = << >>

----------------------------------------------------------------------------
(* calculate_options_summary *)

\* the totals before any position is added
SummaryStart ==
    [total_value |-> RInt(0), total_days_gain |-> RInt(0),
     expiring_soon |-> << >>,
     long_count |-> 0, long_value |-> RInt(0),
     short_count |-> 0, short_value |-> RInt(0)]

\* a variant that files every position under the long side
SummaryStepAllLong(acc, opt, k) ==
    [total_value |-> RAdd(acc.total_value, opt.current_value),
     total_days_gain |-> RAdd(acc.total_days_gain, opt.days_gain),
     expiring_soon |->
        IF opt.days_to_expiration < 7
        THEN Append(acc.expiring_soon, k) ELSE acc.expiring_soon,
     long_count |-> acc.long_count + 1,
     long_value |-> RAdd(acc.long_value, opt.current_value),
     short_count |-> acc.short_count,
     short_value |-> acc.short_value]

\* one turn of the loop over the positions; k is the position's place
SummaryStep(acc, opt, k) ==
    [total_value |-> RAdd(acc.total_value, opt.current_value),
     total_days_gain |-> RAdd(acc.total_days_gain, opt.days_gain),
     expiring_soon |->
        IF opt.days_to_expiration < 7
        THEN Append(acc.expiring_soon, k) ELSE acc.expiring_soon,
     long_count |->
        IF opt.is_short THEN acc.long_count ELSE acc.long_count + 1,
     long_value |->
        IF opt.is_short THEN acc.long_value
        ELSE RAdd(acc.long_value, opt.current_value),
     short_count |->
        IF opt.is_short THEN acc.short_count + 1 ELSE acc.short_count,
     short_value |->
        IF opt.is_short THEN RAdd(acc.short_value, opt.current_value)
        ELSE acc.short_value]

RECURSIVE SummaryTotals(_, _)
SummaryTotals(opts, k) ==
    IF k = 0 THEN SummaryStart
    ELSE SummaryStep(SummaryTotals(opts, k - 1), opts[k], k)

\* total_days_gain / abs(previous_value) * 100, or 0.0 for no previous value
ChangePercent(gain, previous_value) ==
    IF previous_value.n # 0
    THEN Rat(100 * gain.n * previous_value.d,
             gain.d * (IF previous_value.n < 0 THEN -previous_value.n
                       ELSE previous_value.n))
    ELSE RInt(0)

\* the dictionary returned for a non-empty list; amounts in hundredths
SummaryResult(acc, opts) ==
    [outcome |-> "summary",
     total_options_value |-> Round2(acc.total_value),
     total_options_change_dollars |-> Round2(acc.total_days_gain),
     total_options_change_percent |->
        Round2(ChangePercent(acc.total_days_gain,
                             RSub(acc.total_value, acc.total_days_gain))),
     options_positions |-> opts,
     expiring_soon |-> acc.expiring_soon,
     long_count |-> acc.long_count,
     long_total_value |-> Round2(acc.long_value),
     short_count |-> acc.short_count,
     short_total_value |-> Round2(acc.short_value)]

NoSummary == [outcome |-> "None"]

calculate_options_summary(opts) ==
    IF opts = << >> THEN NoSummary
    ELSE SummaryResult(SummaryTotals(opts, Len(opts)), opts)

\* amounts in thousandths of a dollar
MillValues == {4, -16, 100000, -120500}

MillGains == {0, 4, -16}

SummaryDays == {6, 7}

SummaryDomain ==
    [current_value : {Rat(v, 1000) : v \in MillValues},
     days_gain : {Rat(g, 1000) : g \in MillGains},
     days_to_expiration : SummaryDays,
     is_short : BOOLEAN]

InitSummary ==
    /\ pc = "input"
    /\ ScoringIdle
    /\ TimeIdle
    /\ LoaderIdle
    /\ ParserIdle
    /\ CompareIdle
    /\ SyncIdle
    /\ FetchIdle
    /\ SummaryIdle

\* one more position read into the list
AddSummaryOption ==
    /\ pc = "input"
    /\ Len(summary_in) < MaxOpts
    /\ \E opt \in SummaryDomain : summary_in' = Append(summary_in, opt)
    /\ UNCHANGED <<pc, summary, scoring_vars, time_vars, loader_vars,
                   parser_vars, compare_vars, sync_vars, fetch_vars>>

\* the call with an empty list
SummarizeNone ==
    /\ pc = "input"
    /\ summary_in = << >>
    /\ summary' = calculate_options_summary(summary_in)
    /\ pc' = "returned"
    /\ UNCHANGED <<summary_in, scoring_vars, time_vars, loader_vars,
                   parser_vars, compare_vars, sync_vars, fetch_vars>>

\* the call with at least one position
Summarize ==
    /\ pc = "input"
    /\ summary_in # << >>
    /\ summary' = calculate_options_summary(summary_in)
    /\ pc' = "returned"
    /\ UNCHANGED <<summary_in, scoring_vars, time_vars, loader_vars,
                   parser_vars, compare_vars, sync_vars, fetch_vars>>

NextSummary == AddSummaryOption \/ SummarizeNone \/ Summarize

SpecSummary == InitSummary /\ [][NextSummary]_vars

\* the places of summary_in chosen by a predicate on is_short
LongPlaces == {i \in DOMAIN summary_in : ~summary_in[i].is_short}

ShortPlaces == {i \in DOMAIN summary_in : summary_in[i].is_short}

RECURSIVE SumValue(_, _)
SumValue(places, k) ==
    IF k = 0 THEN RInt(0)
    ELSE IF k \in places
         THEN RAdd(SumValue(places, k - 1), summary_in[k].current_value)
         ELSE SumValue(places, k - 1)

RECURSIVE SumGain(_)
SumGain(k) ==
    IF k = 0 THEN RInt(0)
    ELSE RAdd(SumGain(k - 1), summary_in[k].days_gain)

\* h hundredths is exactly the amount x
IsExactly(h, x) == h * x.d = 100 * x.n

WholeCents == \A i \in DOMAIN summary_in :
    IsExactly(Round2(summary_in[i].current_value), summary_in[i].current_value)

Summarized == pc = "returned" /\ summary.outcome = "summary"

SummaryCounts ==
    /\ summary.long_count = Cardinality(LongPlaces)
    /\ summary.short_count = Cardinality(ShortPlaces)
    /\ summary.long_count + summary.short_count = Len(summary_in)
    /\ summary.options_positions = summary_in
    /\ \A i \in DOMAIN summary_in :
          (summary_in[i].days_to_expiration < 7)
              <=> (i \in Range(summary.expiring_soon))

\* the reported percent is the day's gain over the size of the previous value,
\* in percent and rounded, and 0 when the previous value is 0
PercentDerived ==
    LET gain == SumGain(Len(summary_in))
        previous == RSub(SumValue(DOMAIN summary_in, Len(summary_in)), gain)
    IN  IF previous.n = 0 THEN summary.total_options_change_percent = 0
        ELSE IsRounding2(summary.total_options_change_percent,
                         Rat(100 * gain.n * previous.d,
                             gain.d * Abs(previous.n)))

\* C23 as written: the reported totals are the sums themselves, and the two
\* sides' values add up to the reported total value
C23_TotalsAreSums ==
    Summarized =>
        /\ IsExactly(summary.total_options_value,
                     SumValue(DOMAIN summary_in, Len(summary_in)))
        /\ IsExactly(summary.total_options_change_dollars,
                     SumGain(Len(summary_in)))
        /\ PercentDerived
        /\ SummaryCounts
        /\ summary.long_total_value + summary.short_total_value
              = summary.total_options_value

\* C23 amended: every reported amount is its sum rounded to two decimals, the
\* counts split the list exactly, the two sides' values add up to the total to
\* within a cent, and exactly when every value is a whole number of cents
C23_TotalsAreRoundedSums ==
    Summarized =>
        /\ IsRounding2(summary.total_options_value,
                       SumValue(DOMAIN summary_in, Len(summary_in)))
        /\ IsRounding2(summary.total_options_change_dollars,
                       SumGain(Len(summary_in)))
        /\ IsRounding2(summary.long_total_value,
                       SumValue(LongPlaces, Len(summary_in)))
        /\ IsRounding2(summary.short_total_value,
                       SumValue(ShortPlaces, Len(summary_in)))
        /\ PercentDerived
        /\ SummaryCounts
        /\ summary.long_total_value + summary.short_total_value
              - summary.total_options_value \in {-1, 0, 1}
        /\ WholeCents =>
              summary.long_total_value + summary.short_total_value
                  = summary.total_options_value

\* a long and a short position of less than a cent whose rounded values do
\* not add up to the rounded total
C23_Witness ==
    /\ Summarized
    /\ summary.long_count = 1
    /\ summary.short_count = 1
    /\ summary.long_total_value + summary.short_total_value
          # summary.total_options_value

----------------------------------------------------------------------------
(* calendar_sync.py: sync_options_to_calendar.  The calendar is the list of *)
(* its events, an event being its id, its summary and the day it starts on; *)
(* the description, the reminders and the colour of an event are left out.  *)
(* service_calls lists the operations issued on the calendar service: the   *)
(* building of the service and every events().list, insert and update, each *)
(* with the run that issued it and whether it succeeded (ok) or raised      *)
(* HttpError.                                                               *)

\* one character standing for U+1F4CA
ChartEmoji == "@"

RECURSIVE DigitCount(_)
DigitCount(n) == IF n < 10 THEN 1 ELSE 1 + DigitCount(n \div 10)

\* str() of a float that is a whole number or a half
float_repr(x) ==
    IF x.d = 1 THEN Padded(x.n, DigitCount(x.n)) \o ".0"
    ELSE Padded(x.n \div 2, DigitCount(x.n \div 2)) \o ".5"

EventTitle(option) ==
    ChartEmoji \o " " \o option.underlying_symbol \o " $"
        \o float_repr(option.strike_price) \o " " \o option.option_type
        \o " expires ("
        \o (IF option.is_short THEN "Short" ELSE "Long") \o ")"

\* the days an expiration date of a loaded option can name
SyncDates == {<<2026, 3, 20>>, <<2026, 4, 17>>}

\* the text of each of these days
IsoTexts == [t \in SyncDates |-> IsoFormat(t[1], t[2], t[3])]

\* datetime.strptime(text, "%Y-%m-%d"): the days the text names
strptime_date(text) == {t \in SyncDates : IsoTexts[t] = text}

\* the options a sync run can load
SyncDomain ==
    [underlying_symbol : {"AAPL"},
     strike_price : {RInt(190)},
     option_type : {"Call"},
     is_short : BOOLEAN,
     expiration_date : {IsoTexts[t] : t \in SyncDates}]

\* the title of each of them
EventTitles == [option \in SyncDomain |-> EventTitle(option)]

generate_event_title(option) == EventTitles[option]

NoBody == [outcome |-> "None"]

create_event_body(option) ==
    IF strptime_date(option.expiration_date) = {} THEN NoBody
    ELSE [outcome |-> "event",
          summary |-> generate_event_title(option),
          date |-> CHOOSE t \in strptime_date(option.expiration_date) : TRUE]

\* text[:k]
str_prefix(text, k) == SubSeq(text, 1, IF Len(text) < k THEN Len(text) ELSE k)

\* the places of the events that events().list returns: those of the day
\* whose summary matches the query
ListedEvents(cal, query, day) ==
    {i \in DOMAIN cal :
        /\ cal[i].date = day
        /\ str_prefix(cal[i].summary, Len(query)) = query}

\* a variant that finds nothing
find_existing_event_never(cal, title, date_str, search_ok) == 0

\* the place of the event found, 0 for None
find_existing_event(cal, title, date_str, search_ok) ==
    IF ~search_ok \/ strptime_date(date_str) = {} THEN 0
    ELSE LET listed == ListedEvents(cal, str_prefix(title, 50),
                           CHOOSE t \in strptime_date(date_str) : TRUE)
             found == {i \in listed : cal[i].summary = title}
         IN  IF found = {} THEN 0
             ELSE CHOOSE i \in found : \A j \in found : i <= j

ServiceCall(run, op, ok, title, day) ==
    [run |-> run, op |-> op, ok |-> ok, summary |-> title, date |-> day]

\* create_event: the event is inserted unless the call raises HttpError
create_event(st, body, write_ok, run) ==
    [st EXCEPT
        !.calendar =
            IF write_ok
            THEN Append(@, [id |-> Len(@) + 1, summary |-> body.summary,
                            date |-> body.date])
            ELSE @,
        !.service_calls =
            Append(@, ServiceCall(run, "insert", write_ok, body.summary,
                                  body.date))]

\* update_event: the event is replaced unless the call raises HttpError
update_event(st, place, body, write_ok, run) ==
    [st EXCEPT
        !.calendar =
            IF write_ok
            THEN [@ EXCEPT ![place] = [id |-> @.id, summary |-> body.summary,
                                       date |-> body.date]]
            ELSE @,
        !.service_calls =
            Append(@, ServiceCall(run, "update", write_ok, body.summary,
                                  body.date))]

Counted(st, field) == [st EXCEPT !.counts[field] = @ + 1]

\* the loop body after the search returned place
SyncFound(st, place, body, args, write_ok, run) ==
    IF place # 0
    THEN IF args.update_all
         THEN Counted(update_event(st, place, body, write_ok, run), "updated")
         ELSE Counted(st, "skipped")
    ELSE IF args.create_all
         THEN Counted(create_event(st, body, write_ok, run), "created")
         ELSE Counted(st, "skipped")

\* the loop body from the search on
SyncSearch(st, body, date_str, args, search_ok, write_ok, run) ==
    SyncFound(
        [st EXCEPT !.service_calls =
            Append(@, ServiceCall(run, "list", search_ok, body.summary,
                                  body.date))],
        find_existing_event(st.calendar, body.summary, date_str, search_ok),
        body, args, write_ok, run)

\* a variant that searches the calendar before looking at dry_run
SyncBodySearchingFirst(st, body, date_str, args, search_ok, write_ok, run) ==
    IF body = NoBody THEN Counted(st, "skipped")
    ELSE SyncSearch(st, body, date_str, args, search_ok, write_ok, run)

\* the loop body once the event body is made
SyncBody(st, body, date_str, args, search_ok, write_ok, run) ==
    IF body = NoBody THEN Counted(st, "skipped")
    ELSE IF args.dry_run
         THEN IF args.create_all THEN Counted(st, "created")
              ELSE IF args.update_all THEN Counted(st, "updated")
              ELSE st
    ELSE SyncSearch(st, body, date_str, args, search_ok, write_ok, run)

\* the state before the loop: the service is built unless dry_run
SyncStart(cal, calls, args, run) ==
    [calendar |-> cal,
     service_calls |->
        IF args.dry_run THEN calls
        ELSE Append(calls, ServiceCall(run, "build", TRUE, "", NoDate)),
     counts |-> NoCounts]

\* the loop over the first k options; oracle[i] tells whether the search and
\* the insert or update for option i succeed
RECURSIVE SyncLoop(_, _, _, _, _, _, _)
SyncLoop(cal, calls, options, k, args, oracle, run) ==
    IF k = 0 THEN SyncStart(cal, calls, args, run)
    ELSE SyncBody(SyncLoop(cal, calls, options, k - 1, args, oracle, run),
                  create_event_body(options[k]),
                  options[k].expiration_date,
                  args, oracle[k].search_ok, oracle[k].write_ok, run)

sync_options_to_calendar(cal, calls, options, args, oracle, run) ==
    SyncLoop(cal, calls, options, Len(options), args, oracle, run)

SyncArgs == [create_all : BOOLEAN, update_all : BOOLEAN, dry_run : BOOLEAN]

Oracles(n) == [1..n -> [search_ok : BOOLEAN, write_ok : BOOLEAN]]

InitSync ==
    /\ pc = "input"
    /\ ScoringIdle
    /\ TimeIdle
    /\ LoaderIdle
    /\ ParserIdle
    /\ SummaryIdle
    /\ CompareIdle
    /\ FetchIdle
    /\ SyncIdle

\* one more option in the portfolio the sync loads
AddSyncOption ==
    /\ pc = "input"
    /\ Len(sync_options) < MaxOpts
    /\ \E option \in SyncDomain : sync_options' = Append(sync_options, option)
    /\ UNCHANGED <<pc, sync_args, calendar, service_calls, sync_counts,
                   scoring_vars, time_vars, loader_vars, parser_vars,
                   summary_vars, compare_vars, fetch_vars>>

\* a run over a portfolio without options returns before anything else
SyncNone ==
    /\ pc \in {"input", "synced"}
    /\ sync_options = << >>
    /\ \E args \in SyncArgs : sync_args' = args
    /\ pc' = IF pc = "input" THEN "synced" ELSE "resynced"
    /\ UNCHANGED <<sync_options, calendar, service_calls, sync_counts,
                   scoring_vars, time_vars, loader_vars, parser_vars,
                   summary_vars, compare_vars, fetch_vars>>

\* the first run
SyncRun ==
    /\ pc = "input"
    /\ sync_options # << >>
    /\ \E args \in SyncArgs, oracle \in Oracles(Len(sync_options)) :
          \E st \in {sync_options_to_calendar(calendar, service_calls,
                          sync_options, args, oracle, 1)} :
              /\ sync_args' = args
              /\ calendar' = st.calendar
              /\ service_calls' = st.service_calls
              /\ sync_counts' = st.counts
    /\ pc' = "synced"
    /\ UNCHANGED <<sync_options, scoring_vars, time_vars, loader_vars,
                   parser_vars, summary_vars, compare_vars, fetch_vars>>

\* a second run with the same arguments over the same portfolio
SyncRunAgain ==
    /\ pc = "synced"
    /\ sync_options # << >>
    /\ \E oracle \in Oracles(Len(sync_options)) :
          \E st \in {sync_options_to_calendar(calendar, service_calls,
                          sync_options, sync_args, oracle, 2)} :
              /\ calendar' = st.calendar
              /\ service_calls' = st.service_calls
              /\ sync_counts' = st.counts
    /\ pc' = "resynced"
    /\ UNCHANGED <<sync_options, sync_args, scoring_vars, time_vars,
                   loader_vars, parser_vars, summary_vars, compare_vars,
                   fetch_vars>>

NextSync == AddSyncOption \/ SyncNone \/ SyncRun \/ SyncRunAgain

SpecSync == InitSync /\ [][NextSync]_vars

\* the calls of a run, and those of one operation among them
CallsOf(run) == {i \in DOMAIN service_calls : service_calls[i].run = run}

CallsOfOp(run, op) == {i \in CallsOf(run) : service_calls[i].op = op}

LastRun == IF pc = "resynced" THEN 2 ELSE 1

\* C24: a run with dry_run set performs no calendar operation: the service
\* is not built, no search, insert or update is issued, and the calendar is
\* left as it was, whatever create_all and update_all are
C24_DryRunTouchesNothing ==
    (pc \in {"synced", "resynced"} /\ sync_args.dry_run) =>
        /\ service_calls = << >>
        /\ calendar = << >>

\* a dry run with create_all over two options, both counted as created
C24_Witness ==
    /\ pc = "synced"
    /\ sync_args.dry_run /\ sync_args.create_all
    /\ Len(sync_options) = 2
    /\ sync_counts.created = 2
    /\ calendar = << >>

\* the events a run inserted and the events it updated
Inserted(run) == {i \in CallsOfOp(run, "insert") : service_calls[i].ok}

Updated(run) == {i \in CallsOfOp(run, "update") : service_calls[i].ok}

AllCallsSucceed == \A i \in DOMAIN service_calls : service_calls[i].ok

RealRun ==
    /\ pc \in {"synced", "resynced"}
    /\ ~sync_args.dry_run
    /\ sync_options # << >>

\* C28: after a run without dry_run over n options the three counters add up
\* to n, the created counter is the number of events the run inserted and
\* the updated counter is the number of events it updated, also when an
\* insert or an update fails
C28_CountersMatchCalendar ==
    RealRun =>
        /\ sync_counts.created + sync_counts.updated + sync_counts.skipped
              = Len(sync_options)
        /\ sync_counts.created = Cardinality(Inserted(LastRun))
        /\ sync_counts.updated = Cardinality(Updated(LastRun))

\* the events of the calendar are pairwise different in title or day
NoTwinEvents ==
    \A i, j \in DOMAIN calendar :
        (calendar[i].summary = calendar[j].summary
            /\ calendar[i].date = calendar[j].date) => i = j

\* C29: when every calendar call succeeds, a second run with create_all
\* inserts nothing, every option being found by title and day (and skipped
\* unless update_all is set too), and no run leaves two events with the same
\* title and day
C29_CreateAllIdempotent ==
    (RealRun /\ sync_args.create_all /\ AllCallsSucceed) =>
        /\ NoTwinEvents
        /\ \A k \in DOMAIN sync_options :
              \E i \in DOMAIN calendar :
                  /\ calendar[i].summary = generate_event_title(sync_options[k])
                  /\ IsoTexts[calendar[i].date] = sync_options[k].expiration_date
        /\ pc = "resynced" =>
              /\ CallsOfOp(2, "insert") = {}
              /\ Cardinality(CallsOfOp(2, "list")) = Len(sync_options)
              /\ Len(calendar) = Cardinality(Inserted(1))
              /\ ~sync_args.update_all =>
                    sync_counts.skipped = Len(sync_options)

\* two runs with create_all alone over the same option listed twice: one
\* event, and the second run skips both
C29_Witness ==
    /\ pc = "resynced"
    /\ sync_args = [create_all |-> TRUE, update_all |-> FALSE,
                    dry_run |-> FALSE]
    /\ AllCallsSucceed
    /\ Len(sync_options) = 2
    /\ sync_options[1] = sync_options[2]
    /\ Len(calendar) = 1
    /\ sync_counts = [created |-> 0, updated |-> 0, skipped |-> 2]

----------------------------------------------------------------------------
(* calendar_sync.py: generate_recommendation, and the maximum loss that     *)
(* sync_options_to_calendar hands to it                                     *)

\* max_loss_dollars after the first k options of the loop
RECURSIVE CalendarMaxLoss(_, _)
CalendarMaxLoss(options, k) ==
    IF k = 0 THEN 0
    ELSE IF options[k].total_gain < 0
              /\ Abs(options[k].total_gain) > CalendarMaxLoss(options, k - 1)
         THEN Abs(options[k].total_gain)
         ELSE CalendarMaxLoss(options, k - 1)

\* the recommended_action of generate_recommendation
CalendarAction(option, combined_score) ==
    IF option.is_short /\ option.total_gain_percent >= 6000
    THEN <<"BUY TO CLOSE (TAKE PROFIT NOW)", Format1(option.total_gain_percent)>>
    ELSE IF option.is_short /\ option.total_gain_percent >= 5000
    THEN <<"BUY TO CLOSE (CONSIDER CLOSING)", Format1(option.total_gain_percent)>>
    ELSE IF option.total_gain < 0 THEN
        IF RGe(combined_score, RInt(90)) THEN <<"CLOSE IMMEDIATELY">>
        ELSE IF RGe(combined_score, RInt(70)) THEN <<"HIGH PRIORITY">>
        ELSE IF RGe(combined_score, RInt(50)) THEN <<"MONITOR">>
        ELSE <<"WATCH">>
    ELSE <<"HOLD">>

\* the dictionary returned, from the unrounded scores
CalendarResult(option, time_score, loss_dollar_score, loss_percent_score, combined_score) ==
    [time_urgency_score      |-> Round2(time_score),
     loss_dollar_score       |-> Round2(loss_dollar_score),
     loss_percent_score      |-> Round2(loss_percent_score),
     combined_priority_score |-> Round2(combined_score),
     urgency_level           |->
        IF RGe(combined_score, RInt(90)) THEN "CRITICAL"
        ELSE IF RGe(combined_score, RInt(70)) THEN "HIGH"
        ELSE IF RGe(combined_score, RInt(50)) THEN "MEDIUM"
        ELSE "LOW",
     recommended_action      |-> CalendarAction(option, combined_score),
     cost_to_close           |-> Abs(option.current_value)]

\* a variant with the weights of the time and loss-dollar scores exchanged
CalendarCombinedSwapped(option, time_score, loss_dollar_score, loss_percent_score) ==
    CalendarResult(option, time_score, loss_dollar_score, loss_percent_score,
        RAdd(RAdd(RMul(time_score, Rat(3, 10)),
                  RMul(loss_dollar_score, Rat(4, 10))),
             RMul(loss_percent_score, Rat(3, 10))))

CalendarCombined(option, time_score, loss_dollar_score, loss_percent_score) ==
    CalendarResult(option, time_score, loss_dollar_score, loss_percent_score,
        RAdd(RAdd(RMul(time_score, Rat(4, 10)),
                  RMul(loss_dollar_score, Rat(3, 10))),
             RMul(loss_percent_score, Rat(3, 10))))

generate_recommendation(option, max_loss) ==
    CalendarCombined(option,
        calendar_time_urgency_score(option.days_to_expiration),
        IF option.total_gain < 0 /\ max_loss > 0
        THEN Rat(Abs(option.total_gain) * 100, max_loss) ELSE RInt(0),
        IF option.total_gain_percent < 0
        THEN RMin(RInt(100), Rat(Abs(option.total_gain_percent), 100))
        ELSE RInt(0))

\* the recommendations of one sync run over the options
CalendarRecommendations(options, max_loss) ==
    [k \in 1..Len(options) |-> generate_recommendation(options[k], max_loss)]

\* the sync scores the option list the daily summary has scored
CalendarRecommend ==
    /\ pc = "returned"
    /\ options_portfolio # << >>
    /\ calendar_recs' = CalendarRecommendations(options_portfolio,
            CalendarMaxLoss(options_portfolio, Len(options_portfolio)))
    /\ pc' = "compared"
    /\ UNCHANGED <<scoring_vars, time_vars, loader_vars, parser_vars,
                   summary_vars, sync_vars, fetch_vars>>

NextCompare == AddOption \/ RecommendNone \/ Recommend \/ CalendarRecommend

SpecCompare == Init /\ [][NextCompare]_vars

ScoreFields ==
    {"time_urgency_score", "loss_dollar_score", "loss_percent_score",
     "combined_priority_score", "urgency_level", "recommended_action",
     "cost_to_close"}

\* C25: for every option list and every position of it, the recommendation
\* of calendar_sync has the scores, the tier, the action and the cost to
\* close of the position scored by the daily summary
C25_ScorersAgree ==
    pc = "compared" =>
        /\ Len(calendar_recs) = Len(scored_positions)
        /\ \A k \in DOMAIN calendar_recs : \A field \in ScoreFields :
              calendar_recs[k][field] = scored_positions[k][field]

\* two positions scored by both: a smaller loss scaled by the larger one,
\* and a short position to buy back
C25_Witness ==
    /\ pc = "compared"
    /\ Len(calendar_recs) = 2
    /\ \E k \in DOMAIN calendar_recs :
          /\ calendar_recs[k].loss_dollar_score = 5000
          /\ calendar_recs[k].recommended_action # <<"HOLD">>
    /\ \E k \in DOMAIN calendar_recs :
          calendar_recs[k].loss_dollar_score = 10000

----------------------------------------------------------------------------
\* C26: for every row sequence the mapping load_portfolio returns is the
\* stocks_portfolio mapping load_full_portfolio returns, same tickers and
\* same quantities, rows naming Call or Put outside the option grammar
\* included
C26_LoadersAgreeOnStocks ==
    (FullReturned /\ StocksReturned) => portfolio.portfolio = Stocks

----------------------------------------------------------------------------
(* daily_market_summary.py: fetch_market_data and the exit code of main.   *)
(* fetch_failing is the set of tickers for which fetch_ticker_data returns *)
(* a dictionary with an "error" key; fetch_portfolio is the key set of     *)
(* PORTFOLIO.  Prices and the portfolio and option summaries are left out. *)

INDICES == <<"^GSPC", "^VIX">>

STOCKS == <<"AAPL", "MSFT", "GOOGL", "NVDA", "TSLA">>

\* the tickers a portfolio file can hold, in file order
PortfolioOrder == <<"AAPL", "AMD", "INTC">>

SeqRange(seq) == {seq[k] : k \in DOMAIN seq}

FetchTickers == SeqRange(INDICES) \cup SeqRange(STOCKS) \cup SeqRange(PortfolioOrder)

\* the entries errors gains from a loop over the symbols
RECURSIVE FetchErrors(_, _, _)
FetchErrors(symbols, k, failing) ==
    IF k = 0 THEN << >>
    ELSE IF symbols[k] \in failing
         THEN Append(FetchErrors(symbols, k - 1, failing), symbols[k])
         ELSE FetchErrors(symbols, k - 1, failing)

\* the symbols of PORTFOLIO that are not in STOCKS, in order
RECURSIVE Untracked(_, _)
Untracked(held, k) ==
    IF k = 0 THEN << >>
    ELSE IF PortfolioOrder[k] \in held /\ PortfolioOrder[k] \notin SeqRange(STOCKS)
         THEN Append(Untracked(held, k - 1), PortfolioOrder[k])
         ELSE Untracked(held, k - 1)

\* the result dictionary: status and the "errors" key are set from the
\* errors of the indices and tracked stocks; the list stored under "errors"
\* is the one the portfolio loop goes on appending to
FetchResult(early, late, untracked) ==
    [outcome |-> "returned",
     status |-> IF early = << >> THEN "success" ELSE "partial_failure",
     has_errors |-> early # << >>,
     errors |-> IF early # << >> THEN early \o late ELSE << >>,
     fetched |-> INDICES \o STOCKS \o untracked]

FetchLate(early, untracked, failing) ==
    FetchResult(early, FetchErrors(untracked, Len(untracked), failing),
                untracked)

fetch_market_data(held, failing) ==
    FetchLate(FetchErrors(INDICES \o STOCKS, Len(INDICES \o STOCKS), failing),
              Untracked(held, Len(PortfolioOrder)), failing)

InitFetch ==
    /\ pc = "main"
    /\ ScoringIdle
    /\ TimeIdle
    /\ LoaderIdle
    /\ ParserIdle
    /\ SummaryIdle
    /\ CompareIdle
    /\ SyncIdle
    /\ fetch_failing \in SUBSET FetchTickers
    /\ fetch_portfolio \in SUBSET SeqRange(PortfolioOrder)
    /\ fetch_result = PendingFetch
    /\ exit_code = << >>

\* main calls fetch_market_data
FetchMarketData ==
    /\ pc = "main"
    /\ fetch_result' = fetch_market_data(fetch_portfolio, fetch_failing)
    /\ pc' = "fetched"
    /\ UNCHANGED <<fetch_failing, fetch_portfolio, exit_code, scoring_vars,
                   time_vars, loader_vars, parser_vars, summary_vars,
                   compare_vars, sync_vars>>

\* main prints the result and exits on its status
MainExit ==
    /\ pc = "fetched"
    /\ exit_code' = IF fetch_result.status = "success" THEN <<0>> ELSE <<1>>
    /\ pc' = "exited"
    /\ UNCHANGED <<fetch_failing, fetch_portfolio, fetch_result, scoring_vars,
                   time_vars, loader_vars, parser_vars, summary_vars,
                   compare_vars, sync_vars>>

NextFetch == FetchMarketData \/ MainExit

SpecFetch == InitFetch /\ [][NextFetch]_vars

\* the tickers whose fetch returned an error
FailedFetches == SeqRange(fetch_result.fetched) \cap fetch_failing

\* C27: the status is "success" exactly when no fetch of an index, a tracked
\* stock or a portfolio stock outside the tracked list returned an error,
\* the result has an "errors" list exactly when some fetch failed, and main
\* exits with 0 only when every fetch succeeded
C27_StatusReflectsEveryFetch ==
    pc \in {"fetched", "exited"} =>
        /\ (fetch_result.status = "success") <=> (FailedFetches = {})
        /\ fetch_result.has_errors <=> (FailedFetches # {})
        /\ fetch_result.has_errors =>
              SeqRange(fetch_result.errors) = FailedFetches
        /\ exit_code = <<0>> => FailedFetches = {}

----------------------------------------------------------------------------
(* Positions whose combined score falls just below a tier threshold: 7   *)
(* days out (time score 80), the largest loss of the list (loss-dollar    *)
(* score 100) and 26.66% down give 32 + 30 + 7.998 = 69.998.              *)

BoundarySides == {<<FALSE, -2666>>, <<FALSE, -2000>>, <<TRUE, 5000>>}

BoundaryDomain ==
    {[days_to_expiration |-> 7,
      total_gain         |-> g,
      total_gain_percent |-> s[2],
      is_short           |-> s[1],
      current_value      |-> v] :
        g \in GainValues, s \in BoundarySides, v \in ValueValues}

\* one more such position read into the option list
AddBoundaryOption ==
    /\ pc = "input"
    /\ Len(options_portfolio) < MaxOpts
    /\ \E opt \in BoundaryDomain :
         options_portfolio' = Append(options_portfolio, opt)
    /\ UNCHANGED <<pc, max_loss_dollars, score_locals, scored_positions,
                   recommendations, first_call>>
    /\ UNCHANGED <<time_vars, loader_vars, parser_vars, report_vars>>

NextBoundary == AddBoundaryOption \/ RecommendNone \/ Recommend

SpecBoundary == Init /\ [][NextBoundary]_vars

BuyToClose ==
    {"BUY TO CLOSE (TAKE PROFIT NOW)", "BUY TO CLOSE (CONSIDER CLOSING)"}

\* C30: a position is in profit_taking_opportunities exactly when its action
\* is one of the two BUY TO CLOSE actions; every position of tier HIGH or
\* CRITICAL is in urgent_losses; and every position of urgent_losses with
\* total_gain < 0 and a reported combined score >= 70 that is no
\* profit-taking candidate carries HIGH PRIORITY or CLOSE IMMEDIATELY
C30_ViewsMatchLabels ==
    pc = "returned" =>
        \A i \in Positions :
            /\ (i \in Range(recommendations.profit_taking_opportunities))
                  <=> (scored_positions[i].recommended_action[1] \in BuyToClose)
            /\ scored_positions[i].urgency_level \in {"HIGH", "CRITICAL"}
                  => i \in Range(recommendations.urgent_losses)
            /\ ( /\ i \in Range(recommendations.urgent_losses)
                 /\ scored_positions[i].total_gain < 0
                 /\ scored_positions[i].combined_priority_score >= 7000
                 /\ i \notin Range(recommendations.profit_taking_opportunities) )
                  => scored_positions[i].recommended_action[1]
                        \in {"HIGH PRIORITY", "CLOSE IMMEDIATELY"}

====
